---- MODULE Spec2Model ----
(***************************************************************************)
(* KPI reduction-and-aggregation pipeline of Automate_Report_BI.           *)
(*                                                                         *)
(* Tables (pandas DataFrames) are sequences of rows; a row is a function   *)
(* from column names to values.  A numeric value is a natural number, or   *)
(* NA for a missing value (NaN / pd.NA).  A raw hourly sheet keeps its     *)
(* hour columns apart: [cols |-> labels, rows |-> <<[id, vals]>>].         *)
(* A cell identifier is tagged with its Python type, because astype(str)   *)
(* acts differently on a str and on an int.                                *)
(***************************************************************************)
EXTENDS Integers, Sequences, FiniteSets, TLC

VARIABLES
    pc,          \* position of the caller (script.main / module main) in its sequence of calls
    proc,        \* the code under execution: "Ericsson3G", "ZTE3G", "Ericsson4G" or "main"
    sheets,      \* the Excel sheets of the download folder (Ericsson-style input)
    csv,         \* the CSV partition files of the download folder (ZTE-style input)
    dataframes,  \* self.dataframes of the processor under execution
    site_tables, \* df_3g_eric_site, df_3g_zte_site, df_4g_eric_site, df_4g_zte_site
    df_3g_site,  \* script.main: 3G concat
    df_4g_site,  \* script.main: 4G concat
    df_site_data, \* script.main: merged 3G + 4G table
    files,       \* the download folder of a whole run: the input folder of each processor
    run,         \* script.main: current_step, account, arguments, and what the run has output
    aggregate_file, \* Aggregate.xlsx, the persisted historical table
    now,         \* the wall clock (datetime.now()), in half days
    db,          \* schedules.db: the tables schedules and schedule_runs
    jobs,        \* the jobs of the APScheduler instance of app_gradio
    procs        \* the script runs started from the control panel

vars == <<pc, proc, sheets, csv, dataframes, site_tables, df_3g_site, df_4g_site, df_site_data,
          files, run, aggregate_file, now, db, jobs, procs>>

(***************************************************************************)
(* The control panel (app_gradio.py, scheduler_db.py) before any schedule  *)
(* is stored and any run is started.                                       *)
(***************************************************************************)
Panel == << db, jobs, procs >>

NoDb == [schedules |-> << >>, schedule_runs |-> << >>, seq |-> 0]

PanelIdle == db = NoDb /\ jobs = {} /\ procs = << >>

(***************************************************************************)
(* Bounds of the model.                                                    *)
(***************************************************************************)
MaxVal == 2        \* hourly load samples are drawn from 0..MaxVal (or missing)
MaxPeaks == 2      \* number of hours of a load series that differ from its base value

(***************************************************************************)
(* Values.                                                                 *)
(***************************************************************************)
NA == -1           \* pd.NA / NaN: the explicit "no value"

NumHours == 24     \* range(24): the hour columns '0' .. '23'

HourLabels ==
    << "0", "1", "2", "3", "4", "5", "6", "7", "8", "9", "10", "11",
       "12", "13", "14", "15", "16", "17", "18", "19", "20", "21", "22", "23" >>

Range(s) == {s[i] : i \in 1..Len(s)}

StrId(s) == [k |-> "str", v |-> s]   \* a cell identifier read as text
IntId(n) == [k |-> "int", v |-> n]   \* a cell identifier read as a number

(* dict[key] = value, overwriting an existing key *)
Store(dfs, key, df) == (key :> df) @@ dfs

(***************************************************************************)
(* pandas row reductions over the hour columns (skipna=True).              *)
(***************************************************************************)
Present(vals) == {i \in 1..Len(vals) : vals[i] # NA}

(* DataFrame.max(axis=1): largest present sample, NA when none is present *)
RowMax(vals) ==
    IF Present(vals) = {} THEN NA
    ELSE CHOOSE m \in {vals[i] : i \in Present(vals)} :
             \A i \in Present(vals) : vals[i] <= m

(* DataFrame.idxmax(axis=1): label position of the first occurrence of the *)
(* maximum, NA for a row with no present sample.  The position is 0-based, *)
(* so for the columns '0'..'23' it is the hour number.                     *)
RowIdxMaxLast(vals) ==
    IF Present(vals) = {} THEN NA
    ELSE (CHOOSE i \in Present(vals) :
             /\ vals[i] = RowMax(vals)
             /\ \A j \in Present(vals) : vals[j] = RowMax(vals) => j <= i) - 1

RowIdxMax(vals) ==
    IF Present(vals) = {} THEN NA
    ELSE (CHOOSE i \in Present(vals) :
             /\ vals[i] = RowMax(vals)
             /\ \A j \in Present(vals) : vals[j] = RowMax(vals) => i <= j) - 1

(* a sum that does not skip a missing sample (skipna=False) *)
RECURSIVE RowSumNoSkip(_)
RowSumNoSkip(vals) ==
    IF vals = <<>> THEN 0
    ELSE LET rest == RowSumNoSkip(Tail(vals))
         IN  IF Head(vals) = NA \/ rest = NA THEN NA ELSE Head(vals) + rest

(* DataFrame.sum(axis=1): sum of the present samples, 0 when none is present *)
RECURSIVE RowSum(_)
RowSum(vals) ==
    IF vals = <<>> THEN 0
    ELSE (IF Head(vals) = NA THEN 0 ELSE Head(vals)) + RowSum(Tail(vals))

(***************************************************************************)
(* Generic table helpers.                                                  *)
(***************************************************************************)
RECURSIVE Flatten(_)
Flatten(ss) == IF ss = <<>> THEN <<>> ELSE Head(ss) \o Flatten(Tail(ss))

(* pd.concat([...], ignore_index=True) *)
(* mutant: a join on SiteID, a site of both tables keeps its first row only *)
ConcatJoinedOnSite(a, b) ==
    a \o SelectSeq(b, LAMBDA r : \A i \in 1..Len(a) : a[i]["SiteID"] # r["SiteID"])

Concat(a, b) == a \o b

(* left.merge(right, on=key, how='left'): every left row in order, once    *)
(* per matching right row (in right order), or once with NA in the right   *)
(* columns when no right row matches.                                      *)
LeftMerge(left, right, key, rcols) ==
    Flatten([i \in 1..Len(left) |->
        LET l == left[i]
            m == SelectSeq(right, LAMBDA r : r[key] = l[key])
        IN  IF m = <<>> THEN << [c \in rcols |-> NA] @@ l >>
            ELSE [j \in 1..Len(m) |-> [c \in rcols |-> m[j][c]] @@ l]])

(* df.rename(columns=mapping) on every row *)
Rename(df, mapping) ==
    [i \in 1..Len(df) |->
        LET r == df[i]
            new(c) == IF c \in DOMAIN mapping THEN mapping[c] ELSE c
        IN  [d \in {new(c) : c \in DOMAIN r} |->
                r[CHOOSE c \in DOMAIN r : new(c) = d]]]

(* df[columns]: keep the named columns *)
Project(df, columns) == [i \in 1..Len(df) |-> [c \in columns |-> df[i][c]]]


(* df[name] = values: replace the column when it exists, append it otherwise *)
SetCol(df, name, values) ==
    IF name \in Range(df.cols)
    THEN LET p == CHOOSE q \in 1..Len(df.cols) : df.cols[q] = name
         IN  [df EXCEPT !.rows = [i \in 1..Len(df.rows) |->
                 [df.rows[i] EXCEPT !.vals[p] = values[i]]]]
    ELSE [cols |-> Append(df.cols, name),
          rows |-> [i \in 1..Len(df.rows) |->
                 [df.rows[i] EXCEPT !.vals = Append(@, values[i])]]]

(* dict(zip(df[kcol], df[vcol])): the last row of a key wins *)
DictZip(df, kcol, vcol) ==
    [k \in {df[i][kcol] : i \in 1..Len(df)} |->
        df[CHOOSE i \in 1..Len(df) :
              /\ df[i][kcol] = k
              /\ \A j \in 1..Len(df) : df[j][kcol] = k => j <= i][vcol]]

(* str(hour_index): the label of an hour number, 'nan' for a missing index *)
StrHour(hour_index) ==
    IF hour_index = NA THEN "nan" ELSE HourLabels[hour_index + 1]

(* row[hour_col] of a raw sheet row whose hour columns are cols *)
RowAt(cols, vals, hour_col) ==
    vals[CHOOSE p \in 1..Len(cols) : cols[p] = hour_col]

(***************************************************************************)
(* Ericsson3GProcessor (processing_3G_Ericsson.py).                        *)
(***************************************************************************)
transform_hs_user(dfs) ==
    LET df == dfs["HS_User"]
        \* hour_columns: every column that is not Date / RNC Id / RBS Id / UCell Id
        maxs == [i \in 1..Len(df.rows) |-> RowMax(df.rows[i].vals)]
        idxs == [i \in 1..Len(df.rows) |-> RowIdxMax(df.rows[i].vals)]
        df2  == SetCol(SetCol(df, "Max_user", maxs), "Max_hour_index", idxs)
        result == [i \in 1..Len(df.rows) |->
                      ("UCell Id" :> df.rows[i].id) @@ ("Max_user" :> maxs[i])
                          @@ ("Max_hour_index" :> idxs[i])]
    IN  Store(Store(dfs, "HS_User", df2), "HS_User_Transformed", result)

transform_voice_erlang(dfs) ==
    LET df == dfs["Voice_Erlang"]
        result == [i \in 1..Len(df.rows) |->
                      ("UCell Id" :> df.rows[i].id) @@ ("Voice" :> RowSum(df.rows[i].vals))]
    IN  Store(dfs, "Voice_Erlang_Transformed", result)

transform_data_mb(dfs) ==
    LET df == dfs["Data_MB"]
        result == [i \in 1..Len(df.rows) |->
                      ("UCell Id" :> df.rows[i].id) @@ ("Data" :> RowSum(df.rows[i].vals))]
    IN  Store(dfs, "Data_MB_Transformed", result)

(* get_3g_speed / get_throughput_at_max_ue: the throughput row's sample at  *)
(* the column named by the cell's busy-hour index, NA when the cell is not *)
(* in the lookup or no column has that name.                               *)
get_speed_zero(lookup, cols, row) ==
    IF row.id \in DOMAIN lookup /\ StrHour(lookup[row.id]) \in Range(cols)
    THEN RowAt(cols, row.vals, StrHour(lookup[row.id]))
    ELSE 0

get_speed_own_max(lookup, cols, row) ==
    IF row.id \in DOMAIN lookup /\ StrHour(lookup[row.id]) \in Range(cols)
    THEN RowMax(row.vals)
    ELSE NA

get_speed(lookup, cols, row) ==
    IF row.id \in DOMAIN lookup
    THEN LET hour_col == StrHour(lookup[row.id])
         IN  IF hour_col \in Range(cols)
             THEN RowAt(cols, row.vals, hour_col)
             ELSE NA
    ELSE NA

transform_user_tp_dl(dfs) ==
    LET df_tp == dfs["User_TP_DL"]
        dfs2 == IF "HS_User_Transformed" \in DOMAIN dfs THEN dfs ELSE transform_hs_user(dfs)
        hs_lookup == DictZip(dfs2["HS_User_Transformed"], "UCell Id", "Max_hour_index")
        result == [i \in 1..Len(df_tp.rows) |->
                      ("Ucell Id" :> df_tp.rows[i].id)
                          @@ ("3G_Speed" :> get_speed(hs_lookup, df_tp.cols, df_tp.rows[i]))]
    IN  Store(dfs2, "User_TP_DL_Transformed", result)

transform_all(dfs) ==
    transform_user_tp_dl(transform_data_mb(transform_voice_erlang(transform_hs_user(dfs))))

merge_final_result_3G(dfs) ==
    LET hs_df == dfs["HS_User_Transformed"]
        voice_df == dfs["Voice_Erlang_Transformed"]
        data_df == dfs["Data_MB_Transformed"]
        tp_df_renamed == Rename(dfs["User_TP_DL_Transformed"], ("Ucell Id" :> "UCell Id"))
        r0 == Project(hs_df, {"UCell Id", "Max_user"})
        r1 == LeftMerge(r0, tp_df_renamed, "UCell Id", {"3G_Speed"})
        r2 == LeftMerge(r1, voice_df, "UCell Id", {"Voice"})
        r3 == LeftMerge(r2, data_df, "UCell Id", {"Data"})
        result == Project(Rename(r3, ("UCell Id" :> "Ucell ID")),
                          {"Ucell ID", "Max_user", "3G_Speed", "Voice", "Data"})
    IN  Store(dfs, "Final_3G_Result", result)

(***************************************************************************)
(* Ericsson4GProcessor (processing_4G_Ericsson.py): every sheet is read    *)
(* from the file and only the processed table is stored.                   *)
(***************************************************************************)
process_data_mb_sheet(dfs, file) ==
    LET df == file["Data_MB"]
        result == [i \in 1..Len(df.rows) |->
                      ("Cell ID" :> df.rows[i].id)
                          @@ ("traffic_data_4G" :> RowSum(df.rows[i].vals))]
    IN  Store(dfs, "Data_MB_Processed", result)

process_ue_active_dl_sheet(dfs, file) ==
    LET df == file["UE_Active_DL"]
        result == [i \in 1..Len(df.rows) |->
                      ("Cell ID" :> df.rows[i].id)
                          @@ ("max_UE_Active" :> RowMax(df.rows[i].vals))
                          @@ ("index_max_UE_Active" :> RowIdxMax(df.rows[i].vals))]
    IN  Store(dfs, "UE_Active_DL_Processed", result)

process_ue_tp_dl_sheet(dfs, file) ==
    LET df == file["UE_TP_DL"]
        ue_active_lookup ==
            DictZip(dfs["UE_Active_DL_Processed"], "Cell ID", "index_max_UE_Active")
        result == [i \in 1..Len(df.rows) |->
                      ("Cell ID" :> df.rows[i].id)
                          @@ ("throughput_max_UE_Active" :>
                                 get_speed(ue_active_lookup, df.cols, df.rows[i]))]
    IN  Store(dfs, "UE_TP_DL_Processed", result)

process_volte_traffic_sheet(dfs, file) ==
    LET df == file["VoLTE_Traffic"]
        result == [i \in 1..Len(df.rows) |->
                      ("Cell ID" :> df.rows[i].id)
                          @@ ("traffic_VoLTE_4G" :> RowSum(df.rows[i].vals))]
    IN  Store(dfs, "VoLTE_Traffic_Processed", result)

(* the sheets of Automate_North_LTE_Traffic_Data.xlsx and of              *)
(* Automate_VoLTE_Traffic_Ericsson.xlsx; a file that is not in the folder  *)
(* raises FileNotFoundError and ends the load                              *)
LteSheets4G == {"Data_MB", "UE_Active_DL", "UE_TP_DL"}
VolteSheets4G == {"VoLTE_Traffic"}

load_raises_4G(file) == ~ (LteSheets4G \cup VolteSheets4G \subseteq DOMAIN file)

load_all_4g_ericsson_data(dfs, file) ==
    IF ~ (LteSheets4G \subseteq DOMAIN file) THEN dfs
    ELSE LET lte == process_ue_tp_dl_sheet(
                        process_ue_active_dl_sheet(
                            process_data_mb_sheet(dfs, file), file), file)
         IN  IF ~ (VolteSheets4G \subseteq DOMAIN file) THEN lte
             ELSE process_volte_traffic_sheet(lte, file)

merge_final_result_4G(dfs) ==
    LET ue_active_df == dfs["UE_Active_DL_Processed"]
        r0 == Project(ue_active_df, {"Cell ID", "max_UE_Active"})
        r1 == LeftMerge(r0, dfs["UE_TP_DL_Processed"], "Cell ID", {"throughput_max_UE_Active"})
        r2 == LeftMerge(r1, dfs["VoLTE_Traffic_Processed"], "Cell ID", {"traffic_VoLTE_4G"})
        r3 == LeftMerge(r2, dfs["Data_MB_Processed"], "Cell ID", {"traffic_data_4G"})
        result == Project(r3, {"Cell ID", "max_UE_Active", "throughput_max_UE_Active",
                               "traffic_VoLTE_4G", "traffic_data_4G"})
    IN  Store(dfs, "4G_ERICSSON_DATA", result)


(***************************************************************************)
(* ZTE3GProcessor (processing_3G_ZTE.py).  A partition file of the folder  *)
(* is [ok |-> found and readable, rows |-> its rows].                      *)
(***************************************************************************)
load_partitions(csv_files, patterns) ==
    Flatten([i \in 1..Len(patterns) |->
        IF csv_files[patterns[i]].ok THEN << csv_files[patterns[i]].rows >> ELSE <<>>])

(* pd.concat(dfs, ignore_index=True) of a list of tables *)
ConcatAll(dfs) == Flatten(dfs)

TrafficPatterns == << "Automate_3G_ZTE_Traffic_EMS1_WD_", "Automate_3G_ZTE_Traffic_EMS2_WD_" >>
UserTpPatterns == << "Automate_3G_ZTE_User_TP_EMS1_BH_", "Automate_3G_ZTE_User_TP_EMS2_BH_" >>

(* load_traffic_files / load_user_throughput_files: the partitions that    *)
(* could be loaded are concatenated and stored; ValueError when there is   *)
(* none.  load_all_3g_zte_data loads the traffic files first.              *)
load_raises_any_missing(csv_files) ==
    \E f \in DOMAIN csv_files : ~csv_files[f].ok

load_raises_ZTE(csv_files) ==
    \/ load_partitions(csv_files, TrafficPatterns) = <<>>
    \/ load_partitions(csv_files, UserTpPatterns) = <<>>

load_traffic_files(dfs, csv_files) ==
    LET loaded == load_partitions(csv_files, TrafficPatterns)
    IN  IF loaded = <<>> THEN dfs ELSE Store(dfs, "3G_ZTE_Traffic", ConcatAll(loaded))

load_user_throughput_files(dfs, csv_files) ==
    LET loaded == load_partitions(csv_files, UserTpPatterns)
    IN  IF loaded = <<>> THEN dfs
        ELSE Store(dfs, "3G_ZTE_USER_THROUGHPUT", ConcatAll(loaded))

load_all_3g_zte_data(dfs, csv_files) ==
    IF load_partitions(csv_files, TrafficPatterns) = <<>> THEN dfs
    ELSE load_user_throughput_files(load_traffic_files(dfs, csv_files), csv_files)

merge_final_result_ZTE_on_traffic(dfs) ==
    Store(dfs, "3G_ZTE_DATA",
          LeftMerge(dfs["3G_ZTE_Traffic"], dfs["3G_ZTE_USER_THROUGHPUT"], "Cell Name",
                    {"Average HSDPA Users", "User DL Throughput (kbps)"}))

merge_final_result_ZTE(dfs) ==
    LET traffic_df == dfs["3G_ZTE_Traffic"]
        user_tp_df == dfs["3G_ZTE_USER_THROUGHPUT"]
        result == LeftMerge(user_tp_df, traffic_df, "Cell Name",
                            {"AMR Traffic (Erl)", "Total Data Traffic (MB)"})
    IN  Store(dfs, "3G_ZTE_DATA", result)

(***************************************************************************)
(* standardize_columns / clean_data / aggregate_by_site: the same code in  *)
(* Ericsson3GProcessor, ZTE3GProcessor and Ericsson4GProcessor, up to the  *)
(* technology prefix t and the names of the stored tables.                 *)
(***************************************************************************)
Tech(p) == IF p \in {"Ericsson3G", "ZTE3G"} THEN "3G" ELSE "4G"

FinalKey(p) ==
    CASE p = "Ericsson3G" -> "Final_3G_Result"
      [] p = "ZTE3G"      -> "3G_ZTE_DATA"
      [] p = "Ericsson4G" -> "4G_ERICSSON_DATA"

SiteKey(p) ==
    CASE p = "Ericsson3G" -> "3G_Ericsson_Site_Data"
      [] p = "ZTE3G"      -> "3G_ZTE_Site_Data"
      [] p = "Ericsson4G" -> "4G_Ericsson_Site_Data"

StdNames(p) ==
    CASE p = "Ericsson3G" ->
             ("Ucell ID" :> "3G_Cell_ID") @@ ("Max_user" :> "3G_User")
                 @@ ("3G_Speed" :> "3G_Speed") @@ ("Voice" :> "3G_Voice")
                 @@ ("Data" :> "3G_Data")
      [] p = "ZTE3G" ->
             ("Cell Name" :> "3G_Cell_ID") @@ ("Average HSDPA Users" :> "3G_User")
                 @@ ("User DL Throughput (kbps)" :> "3G_Speed")
                 @@ ("AMR Traffic (Erl)" :> "3G_Voice")
                 @@ ("Total Data Traffic (MB)" :> "3G_Data")
      [] p = "Ericsson4G" ->
             ("Cell ID" :> "4G_Cell_ID") @@ ("max_UE_Active" :> "4G_User")
                 @@ ("throughput_max_UE_Active" :> "4G_Speed")
                 @@ ("traffic_VoLTE_4G" :> "4G_Voice")
                 @@ ("traffic_data_4G" :> "4G_Data")

standardize_columns_in_place(dfs, p) ==
    LET df == Rename(dfs[FinalKey(p)], StdNames(p))
    IN  Store(Store(dfs, FinalKey(p), df), Tech(p) \o "_Standardized", df)

standardize_columns(dfs, p) ==
    Store(dfs, Tech(p) \o "_Standardized", Rename(dfs[FinalKey(p)], StdNames(p)))

clean_data_positive(dfs, p) ==
    LET df == dfs[Tech(p) \o "_Standardized"]
        df_clean == SelectSeq(df, LAMBDA r : r[Tech(p) \o "_Data"] > 0)
    IN  Store(dfs, Tech(p) \o "_Cleaned", df_clean)

clean_data_keep_all(dfs, p) ==
    Store(dfs, Tech(p) \o "_Cleaned", dfs[Tech(p) \o "_Standardized"])

clean_data(dfs, p) ==
    LET df == dfs[Tech(p) \o "_Standardized"]
        df_clean == SelectSeq(df, LAMBDA r : r[Tech(p) \o "_Data"] # 0)
    IN  Store(dfs, Tech(p) \o "_Cleaned", df_clean)


(***************************************************************************)
(* astype(str) and .str[1:7].  A string is a sequence of characters.       *)
(***************************************************************************)
DigitChars == << "0", "1", "2", "3", "4", "5", "6", "7", "8", "9" >>

(* str(n) of a non-negative int *)
RECURSIVE Digits(_)
Digits(n) ==
    IF n < 10 THEN << DigitChars[n + 1] >>
    ELSE Append(Digits(n \div 10), DigitChars[(n % 10) + 1])

(* astype(str) of a cell identifier *)
AsStr(id) == IF id.k = "str" THEN id.v ELSE Digits(id.v)

Min(a, b) == IF a <= b THEN a ELSE b

(* s[start:stop] of Python, 0 <= start <= stop *)
PySlice(s, start, stop) == SubSeq(s, start + 1, Min(stop, Len(s)))

(* df[t_Cell_ID].astype(str).str[1:7] *)
SiteIDOfFromZero(cell_id) == PySlice(AsStr(cell_id), 0, 6)

SiteIDOf(cell_id) == PySlice(AsStr(cell_id), 1, 7)

(***************************************************************************)
(* groupby('SiteID').agg({User: sum, Speed: mean, Voice: sum, Data: sum})  *)
(* .reset_index(): one row per key, keys sorted, NA skipped by sum and     *)
(* mean.  A mean is the exact fraction <<numerator, denominator>> in       *)
(* lowest terms; NAq is the mean of no value.                              *)
(***************************************************************************)
Alphabet == DigitChars \o << "A", "H", "N", "X" >>

Ord(ch) == CHOOSE i \in 1..Len(Alphabet) : Alphabet[i] = ch

(* a < b for Python strings: lexicographic by code point *)
RECURSIVE StrLess(_, _)
StrLess(a, b) ==
    IF b = <<>> THEN FALSE
    ELSE IF a = <<>> THEN TRUE
    ELSE IF Head(a) = Head(b) THEN StrLess(Tail(a), Tail(b))
    ELSE Ord(Head(a)) < Ord(Head(b))

RECURSIVE SortKeys(_)
SortKeys(keys) ==
    IF keys = {} THEN <<>>
    ELSE LET m == CHOOSE x \in keys : \A y \in keys \ {x} : StrLess(x, y)
         IN  << m >> \o SortKeys(keys \ {m})

RECURSIVE GCD(_, _)
GCD(a, b) == IF b = 0 THEN a ELSE GCD(b, a % b)

NAq == << 0, 0 >>

Frac(n, d) == << n \div GCD(n, d), d \div GCD(n, d) >>

RECURSIVE SumCol(_, _)
SumCol(rows, c) ==
    IF rows = <<>> THEN 0
    ELSE (IF Head(rows)[c] = NA THEN 0 ELSE Head(rows)[c]) + SumCol(Tail(rows), c)

CountCol(rows, c) == Len(SelectSeq(rows, LAMBDA r : r[c] # NA))

(* other aggregations of a column: 'first' and 'sum' *)
FirstCol(rows, c) == IF rows[1][c] = NA THEN NAq ELSE Frac(rows[1][c], 1)

TotalCol(rows, c) == IF CountCol(rows, c) = 0 THEN NAq ELSE Frac(SumCol(rows, c), 1)

MeanCol(rows, c) ==
    IF CountCol(rows, c) = 0 THEN NAq
    ELSE Frac(SumCol(rows, c), CountCol(rows, c))

aggregate_by_site(dfs, p) ==
    LET t == Tech(p)
        cleaned == dfs[t \o "_Cleaned"]
        df == [i \in 1..Len(cleaned) |->
                  ("SiteID" :> SiteIDOf(cleaned[i][t \o "_Cell_ID"])) @@ cleaned[i]]
        keys == SortKeys({df[i]["SiteID"] : i \in 1..Len(df)})
        aggregated == [g \in 1..Len(keys) |->
            LET members == SelectSeq(df, LAMBDA r : r["SiteID"] = keys[g])
            IN  ("SiteID" :> keys[g])
                    @@ ((t \o "_User") :> SumCol(members, t \o "_User"))
                    @@ ((t \o "_Speed") :> MeanCol(members, t \o "_Speed"))
                    @@ ((t \o "_Voice") :> SumCol(members, t \o "_Voice"))
                    @@ ((t \o "_Data") :> SumCol(members, t \o "_Data"))]
    IN  Store(dfs, SiteKey(p), aggregated)


(***************************************************************************)
(* Loading (Ericsson3GProcessor.load_all_3g_data).  A sheet of a file that *)
(* is not in the folder is absent from the domain of the file map; the     *)
(* first missing file raises FileNotFoundError and ends the load.          *)
(***************************************************************************)
ThroughputSheets3G == {"User_TP_DL"}
TrafficUserSheets3G == {"Voice_Erlang", "Data_MB", "HS_User"}

load_raises_3G(file) ==
    ~ (ThroughputSheets3G \cup TrafficUserSheets3G \subseteq DOMAIN file)

load_all_3g_data(dfs, file) ==
    IF ~ (ThroughputSheets3G \subseteq DOMAIN file) THEN dfs
    ELSE IF ~ (TrafficUserSheets3G \subseteq DOMAIN file)
         THEN Store(dfs, "User_TP_DL", file["User_TP_DL"])
         ELSE Store(Store(Store(Store(dfs, "User_TP_DL", file["User_TP_DL"]),
                                "Voice_Erlang", file["Voice_Erlang"]),
                          "Data_MB", file["Data_MB"]),
                    "HS_User", file["HS_User"])

(***************************************************************************)
(* script.main: its locals and what it has output.  current_step is the    *)
(* variable of that name; raised_in is the step whose code raised; output  *)
(* is the sequence of failure lines printed and notifications sent.        *)
(* Aggregate.xlsx is absent, or holds the rows of its last complete write, *)
(* or is torn: opened for writing and not yet written.                     *)
(***************************************************************************)
NoRun ==
    [current_step |-> "Initialization", account |-> FALSE, skip_email |-> TRUE,
     process_date |-> 0, raised_in |-> "", fault |-> "", attempted |-> {},
     output |-> << >>, df_combined |-> << >>, number |-> 0,
     prior |-> [state |-> "absent", rows |-> << >>], written_at |-> 0]

Absent == [state |-> "absent", rows |-> << >>]

(* current_step = name *)
EnterStepStale(r, name) == r

EnterStep(r, name) == [r EXCEPT !.current_step = name]

(***************************************************************************)
(* The calls of a processor module's main(), in order (the same sequence   *)
(* script.main runs for each processor).                                   *)
(***************************************************************************)
Frame == UNCHANGED <<proc, sheets, csv, site_tables, df_3g_site, df_4g_site, df_site_data,
                    files, run, aggregate_file, now, Panel >>

E3_Load ==
    /\ pc = "load" /\ proc = "Ericsson3G"
    /\ dataframes' = load_all_3g_data(dataframes, sheets)
    /\ pc' = IF load_raises_3G(sheets) THEN "failed" ELSE "transform"
    /\ Frame

E3_TransformAll ==
    /\ pc = "transform" /\ proc = "Ericsson3G"
    /\ dataframes' = transform_all(dataframes)
    /\ pc' = "merge"
    /\ Frame

E4_Load ==
    /\ pc = "load" /\ proc = "Ericsson4G"
    /\ dataframes' = load_all_4g_ericsson_data(dataframes, sheets)
    /\ pc' = IF load_raises_4G(sheets) THEN "failed" ELSE "merge"
    /\ Frame

MergeFinalResult ==
    /\ pc = "merge"
    /\ dataframes' =
         CASE proc = "Ericsson3G" -> merge_final_result_3G(dataframes)
           [] proc = "Ericsson4G" -> merge_final_result_4G(dataframes)
           [] proc = "ZTE3G"      -> merge_final_result_ZTE(dataframes)
    /\ pc' = "standardize"
    /\ Frame

StandardizeColumns ==
    /\ pc = "standardize"
    /\ dataframes' = standardize_columns(dataframes, proc)
    /\ pc' = "clean"
    /\ Frame

CleanData ==
    /\ pc = "clean"
    /\ dataframes' = clean_data(dataframes, proc)
    /\ pc' = "aggregate"
    /\ Frame

AggregateBySite ==
    /\ pc = "aggregate"
    /\ dataframes' = aggregate_by_site(dataframes, proc)
    /\ pc' = "done"
    /\ Frame

(***************************************************************************)
(* Input of the Ericsson-style extractors: bounded families of sheets.     *)
(***************************************************************************)
cA == StrId(<< "A", "H", "N", "0", "0", "0", "1", "1" >>)   \* site HN0001
cB == StrId(<< "A", "H", "N", "0", "0", "0", "1", "2" >>)   \* site HN0001
cZ == StrId(<< "A", "H", "X", "0", "0", "0", "2", "1" >>)   \* site HX0002

PeakHours == {0, 2, 23}

MkSeries(base, pk) ==
    [h \in 1..NumHours |-> IF (h - 1) \in DOMAIN pk THEN pk[h - 1] ELSE base]

PeakFns ==
    UNION {[S -> 0..MaxVal] : S \in {T \in SUBSET PeakHours : Cardinality(T) <= MaxPeaks}}

LoadSeries == {MkSeries(base, pk) : base \in {0, NA}, pk \in PeakFns}

Sheet(rows) == [cols |-> HourLabels, rows |-> rows]

RowOf(id, vals) == [id |-> id, vals |-> vals]

LoadSheets ==
    {Sheet(<< RowOf(cA, s) >>) : s \in LoadSeries}
        \cup {Sheet(<< RowOf(cB, MkSeries(0, <<>>)), RowOf(cA, s) >>) : s \in LoadSeries}
        \cup {Sheet(<< RowOf(cA, s), RowOf(cB, MkSeries(NA, (23 :> 1))) >>) : s \in LoadSeries}

(* throughput series: a different value at every hour, so that the hour a  *)
(* speed was sampled at is visible in the speed                            *)
TpOffset(id) == IF id = cA THEN 118 ELSE IF id = cB THEN 218 ELSE 318

TpSeries(kind, id) ==
    CASE kind = "ramp" -> [h \in 1..NumHours |-> TpOffset(id) + (h - 1)]
      [] kind = "desc" -> [h \in 1..NumHours |-> TpOffset(id) + (NumHours - h)]
      [] kind = "gap"  -> [h \in 1..NumHours |->
                              IF h - 1 \in PeakHours THEN NA ELSE TpOffset(id) + (h - 1)]

TpOrders == { << cA >>, << cB >>, << cB, cA >>, << cZ, cA >> }

NarrowCols == 2    \* hour columns of a UE_TP_DL sheet that has fewer than 27 columns

TpSheets(p) ==
    {Sheet([i \in 1..Len(o) |-> RowOf(o[i], TpSeries(kind, o[i]))]) :
        o \in TpOrders, kind \in {"ramp", "desc", "gap"}}
    \cup (IF p = "Ericsson4G"
          THEN {[cols |-> SubSeq(HourLabels, 1, NarrowCols),
                 rows |-> [i \in 1..Len(o) |->
                     RowOf(o[i], SubSeq(TpSeries("ramp", o[i]), 1, NarrowCols))]] :
                   o \in TpOrders}
          ELSE {})

TrafficSeries ==
    { [h \in 1..NumHours |-> 0], [h \in 1..NumHours |-> NA],
      [h \in 1..NumHours |-> 1], [h \in 1..NumHours |-> IF h = 1 THEN NA ELSE 2] }

TrafficSheets ==
    {Sheet(<< RowOf(cA, s) >>) : s \in TrafficSeries}
        \cup {Sheet(<< RowOf(cB, s), RowOf(cA, t) >>) : s, t \in TrafficSeries}

FixedVoice == Sheet(<< RowOf(cA, [h \in 1..NumHours |-> 1]) >>)
FixedData == Sheet(<< RowOf(cB, [h \in 1..NumHours |-> 0]), RowOf(cA, [h \in 1..NumHours |-> 2]) >>)
FixedLoad == Sheet(<< RowOf(cA, MkSeries(0, (2 :> 1))), RowOf(cB, MkSeries(0, <<>>)) >>)
FixedTp == Sheet(<< RowOf(cA, TpSeries("ramp", cA)) >>)

(* the sheets of the folder under the sheet names of the processor *)
Folder(p, load, tp, voice, data) ==
    IF p = "Ericsson3G"
    THEN ("HS_User" :> load) @@ ("User_TP_DL" :> tp)
             @@ ("Voice_Erlang" :> voice) @@ ("Data_MB" :> data)
    ELSE ("UE_Active_DL" :> load) @@ ("UE_TP_DL" :> tp)
             @@ ("VoLTE_Traffic" :> voice) @@ ("Data_MB" :> data)

Restrict(f, S) == [x \in S \cap DOMAIN f |-> f[x]]

EricssonFolders(p) ==
    {Folder(p, load, tp, FixedVoice, FixedData) : load \in LoadSheets, tp \in TpSheets(p)}
        \cup {Folder(p, FixedLoad, FixedTp, voice, data) :
                 voice \in TrafficSheets, data \in TrafficSheets}
        \cup {Restrict(Folder(p, FixedLoad, FixedTp, FixedVoice, FixedData), S) :
                 S \in (IF p = "Ericsson3G" THEN {ThroughputSheets3G, TrafficUserSheets3G}
                        ELSE {LteSheets4G, VolteSheets4G})}

NoTables == << >>

Init ==
    /\ pc = "load"
    /\ proc \in {"Ericsson3G", "Ericsson4G"}
    /\ sheets \in EricssonFolders(proc)
    /\ csv = NoTables
    /\ dataframes = NoTables
    /\ site_tables = NoTables
    /\ df_3g_site = NoTables
    /\ df_4g_site = NoTables
    /\ df_site_data = NoTables
    /\ files = NoTables
    /\ run = NoRun
    /\ aggregate_file = Absent
    /\ now = 0
    /\ PanelIdle

Next ==
    \/ E3_Load
    \/ E3_TransformAll
    \/ E4_Load
    \/ MergeFinalResult
    \/ StandardizeColumns
    \/ CleanData
    \/ AggregateBySite

Spec == Init /\ [][Next]_vars


(***************************************************************************)
(* Vocabulary of the properties of the Ericsson-style extractors.          *)
(***************************************************************************)
IsEricsson == proc \in {"Ericsson3G", "Ericsson4G"}

LoadSheet == IF proc = "Ericsson3G" THEN sheets["HS_User"] ELSE sheets["UE_Active_DL"]
TpSheet == IF proc = "Ericsson3G" THEN sheets["User_TP_DL"] ELSE sheets["UE_TP_DL"]
VoiceSheet == IF proc = "Ericsson3G" THEN sheets["Voice_Erlang"] ELSE sheets["VoLTE_Traffic"]
DataSheet == sheets["Data_MB"]

BusyKey == IF proc = "Ericsson3G" THEN "HS_User_Transformed" ELSE "UE_Active_DL_Processed"
BusyIdCol == IF proc = "Ericsson3G" THEN "UCell Id" ELSE "Cell ID"
BusyIdxCol == IF proc = "Ericsson3G" THEN "Max_hour_index" ELSE "index_max_UE_Active"

(* the busy-hour table has been computed from the load sheet *)
BusyComputed == IsEricsson /\ BusyKey \in DOMAIN dataframes

(* the extractor has produced its per-cell result *)
Extracted == IsEricsson /\ FinalKey(proc) \in DOMAIN dataframes

FinalRows == dataframes[FinalKey(proc)]
FinalId(r) == IF proc = "Ericsson3G" THEN r["Ucell ID"] ELSE r["Cell ID"]
FinalUser(r) == IF proc = "Ericsson3G" THEN r["Max_user"] ELSE r["max_UE_Active"]
FinalSpeed(r) == IF proc = "Ericsson3G" THEN r["3G_Speed"] ELSE r["throughput_max_UE_Active"]
FinalVoice(r) == IF proc = "Ericsson3G" THEN r["Voice"] ELSE r["traffic_VoLTE_4G"]
FinalData(r) == IF proc = "Ericsson3G" THEN r["Data"] ELSE r["traffic_data_4G"]

HasRow(sheet, id) == \E i \in 1..Len(sheet.rows) : sheet.rows[i].id = id
TheRow(sheet, id) == sheet.rows[CHOOSE i \in 1..Len(sheet.rows) : sheet.rows[i].id = id]

(* the busy-hour index the extractor computed for a cell of the load sheet *)
BusyIndexOf(id) ==
    LET t == dataframes[BusyKey]
    IN  t[CHOOSE i \in 1..Len(t) : t[i][BusyIdCol] = id][BusyIdxCol]

HasSample(vals) == \E h \in 1..Len(vals) : vals[h] # NA

(* b is the smallest hour index at which the present samples are maximal *)
LeftmostMax(vals, b) ==
    /\ b \in 0..(NumHours - 1)
    /\ vals[b + 1] # NA
    /\ \A h \in 1..Len(vals) : vals[h] # NA => vals[h] <= vals[b + 1]
    /\ \A h \in 1..b : vals[h] # NA => vals[h] < vals[b + 1]

(* C1 as stated: every cell row of the load table gets a busy-hour index   *)
(* in 0..23 that is the leftmost maximum of its load series.               *)
C1_EveryRowHasBusyHour ==
    BusyComputed =>
        /\ Len(dataframes[BusyKey]) = Len(LoadSheet.rows)
        /\ \A i \in 1..Len(LoadSheet.rows) :
              /\ dataframes[BusyKey][i][BusyIdCol] = LoadSheet.rows[i].id
              /\ LeftmostMax(LoadSheet.rows[i].vals, dataframes[BusyKey][i][BusyIdxCol])

(* C1 amended: every cell row of the load table that has at least one      *)
(* present sample gets a busy-hour index in 0..23, the smallest hour at    *)
(* which its present samples attain their maximum (of tied hours the       *)
(* earliest); a row whose samples are all missing gets no index (NA).      *)
C1_BusyHourIsLeftmostMax ==
    BusyComputed =>
        /\ Len(dataframes[BusyKey]) = Len(LoadSheet.rows)
        /\ \A i \in 1..Len(LoadSheet.rows) :
              /\ dataframes[BusyKey][i][BusyIdCol] = LoadSheet.rows[i].id
              /\ IF HasSample(LoadSheet.rows[i].vals)
                 THEN LeftmostMax(LoadSheet.rows[i].vals,
                                  dataframes[BusyKey][i][BusyIdxCol])
                 ELSE dataframes[BusyKey][i][BusyIdxCol] = NA

(* a load row whose maximum is attained at two hours, indexed at the earlier *)
C1_Witness ==
    /\ BusyComputed
    /\ \E i \in 1..Len(LoadSheet.rows) :
          LET vals == LoadSheet.rows[i].vals
              b == dataframes[BusyKey][i][BusyIdxCol]
          IN  /\ b # NA
              /\ b > 0
              /\ \E h \in (b + 2)..NumHours : vals[h] = vals[b + 1]

(* C2: the speed of an extracted cell is the sample of the cell's own      *)
(* throughput row at the column named by the busy-hour index computed from *)
(* the cell's load row, not the maximum of the throughput row.             *)
C2_SpeedSampledAtBusyHour ==
    Extracted =>
        \A i \in 1..Len(FinalRows) :
            LET id == FinalId(FinalRows[i])
                b == BusyIndexOf(id)
            IN  (HasRow(TpSheet, id) /\ b # NA /\ b + 1 <= Len(TpSheet.cols)) =>
                    FinalSpeed(FinalRows[i]) = TheRow(TpSheet, id).vals[b + 1]

(* load maximum at hour 2, throughput 120 at hour 2 and larger elsewhere:  *)
(* BusyHourIndex = 2 and SpeedAtBusyHour = 120                             *)
C2_Witness ==
    /\ Extracted
    /\ \E i \in 1..Len(FinalRows) :
          LET id == FinalId(FinalRows[i])
          IN  /\ HasRow(TpSheet, id)
              /\ BusyIndexOf(id) = 2
              /\ TheRow(TpSheet, id).vals[3] = 120
              /\ FinalSpeed(FinalRows[i]) = 120
              /\ RowMax(TheRow(TpSheet, id).vals) > 120

(* the cell has no row in the throughput table, or its busy-hour index     *)
(* names no hour column of that row                                        *)
NoCrossReference(id) ==
    \/ ~ HasRow(TpSheet, id)
    \/ StrHour(BusyIndexOf(id)) \notin Range(TpSheet.cols)

(* C3: a cell without cross-reference gets the no-value marker as speed    *)
(* (not 0), its other metrics and every cell of the load table are still   *)
(* produced, and with all files present the extractor does not raise.      *)
C3_MissingCrossReferenceIsNoValue ==
    /\ (IsEricsson /\ pc = "failed") =>
           (IF proc = "Ericsson3G" THEN load_raises_3G(sheets)
            ELSE load_raises_4G(sheets))
    /\ Extracted =>
        /\ Len(FinalRows) = Len(LoadSheet.rows)
        /\ \A i \in 1..Len(FinalRows) :
              LET id == LoadSheet.rows[i].id
                  r == FinalRows[i]
              IN  /\ FinalId(r) = id
                  /\ FinalUser(r) = RowMax(LoadSheet.rows[i].vals)
                  /\ HasRow(VoiceSheet, id) =>
                         FinalVoice(r) = RowSum(TheRow(VoiceSheet, id).vals)
                  /\ HasRow(DataSheet, id) =>
                         FinalData(r) = RowSum(TheRow(DataSheet, id).vals)
                  /\ NoCrossReference(id) => (FinalSpeed(r) = NA /\ FinalSpeed(r) # 0)

(* one cell absent from the throughput table beside a cell that has a speed *)
C3_Witness ==
    /\ Extracted
    /\ pc = "done"
    /\ \E i, j \in 1..Len(FinalRows) :
          /\ ~ HasRow(TpSheet, FinalId(FinalRows[i]))
          /\ FinalSpeed(FinalRows[i]) = NA
          /\ FinalUser(FinalRows[i]) # NA
          /\ FinalSpeed(FinalRows[j]) # NA

(* a cell whose busy-hour index names no column of its throughput row *)
C3_WitnessNoColumn ==
    /\ Extracted
    /\ \E i \in 1..Len(FinalRows) :
          /\ HasRow(TpSheet, FinalId(FinalRows[i]))
          /\ BusyIndexOf(FinalId(FinalRows[i])) # NA
          /\ NoCrossReference(FinalId(FinalRows[i]))
          /\ FinalSpeed(FinalRows[i]) = NA

(* C4 as stated: VoiceTotal / DataTotal is the sum of the cell's 24 hourly *)
(* samples, and 0 when the KPI table has no row for the cell.              *)
C4_TotalsZeroWhenNoRow ==
    Extracted =>
        \A i \in 1..Len(FinalRows) :
            LET id == FinalId(FinalRows[i])
            IN  /\ FinalVoice(FinalRows[i]) =
                      (IF HasRow(VoiceSheet, id)
                       THEN RowSum(TheRow(VoiceSheet, id).vals) ELSE 0)
                /\ FinalData(FinalRows[i]) =
                      (IF HasRow(DataSheet, id)
                       THEN RowSum(TheRow(DataSheet, id).vals) ELSE 0)

RECURSIVE SumOfPresent(_, _)
SumOfPresent(vals, h) ==
    IF h = 0 THEN 0
    ELSE SumOfPresent(vals, h - 1) + (IF vals[h] = NA THEN 0 ELSE vals[h])

(* C4 amended: VoiceTotal / DataTotal is the sum of the present samples of *)
(* the cell's 24 hourly samples (0 when all are missing), and the no-value *)
(* marker, not 0, when the KPI table has no row for the cell.              *)
C4_TotalsAreHourlySums ==
    Extracted =>
        \A i \in 1..Len(FinalRows) :
            LET id == FinalId(FinalRows[i])
            IN  /\ FinalVoice(FinalRows[i]) =
                      (IF HasRow(VoiceSheet, id)
                       THEN SumOfPresent(TheRow(VoiceSheet, id).vals, NumHours) ELSE NA)
                /\ FinalData(FinalRows[i]) =
                      (IF HasRow(DataSheet, id)
                       THEN SumOfPresent(TheRow(DataSheet, id).vals, NumHours) ELSE NA)

(* a cell with a positive voice total beside a cell without a voice row *)
C4_Witness ==
    /\ Extracted
    /\ \E i, j \in 1..Len(FinalRows) :
          /\ HasRow(VoiceSheet, FinalId(FinalRows[i]))
          /\ FinalVoice(FinalRows[i]) > 0
          /\ ~ HasRow(VoiceSheet, FinalId(FinalRows[j]))
          /\ FinalVoice(FinalRows[j]) = NA


(***************************************************************************)
(* ZTE3GProcessor: the calls of processing_3G_ZTE.main() before the shared *)
(* standardize / clean / aggregate steps.                                  *)
(***************************************************************************)
Z3_Load ==
    /\ pc = "load" /\ proc = "ZTE3G"
    /\ dataframes' = load_all_3g_zte_data(dataframes, csv)
    /\ pc' = IF load_raises_ZTE(csv) THEN "failed" ELSE "merge"
    /\ Frame

(***************************************************************************)
(* Input of the ZTE-style extractor: bounded families of CSV partitions.   *)
(* A cell of the user/throughput file is drawn with one of the profiles:   *)
(* its users and speed, and its row of the traffic file (none at all for a *)
(* profile without traffic).                                               *)
(***************************************************************************)
MaxCellRows == 3   \* cells of the user/throughput files

cShort == StrId(<< "X", "4", "2" >>)      \* 3 characters: site 42
cOne == StrId(<< "A" >>)                  \* 1 character: empty site
cInt == IntId(1234567)                    \* a numeric cell id: site 234567

CellList == << cA, cB, cShort, cOne, cInt >>

Profiles ==
    { [user |-> 1, speed |-> 10, traffic |-> TRUE, voice |-> 1, data |-> 0],
      [user |-> 2, speed |-> 25, traffic |-> TRUE, voice |-> 2, data |-> 3],
      [user |-> 3, speed |-> NA, traffic |-> FALSE, voice |-> NA, data |-> NA],
      [user |-> 4, speed |-> 15, traffic |-> TRUE, voice |-> 5, data |-> 4] }

UserTpRow(id, q) ==
    ("Cell Name" :> id) @@ ("Average HSDPA Users" :> q.user)
        @@ ("User DL Throughput (kbps)" :> q.speed)

TrafficRow(id, q) ==
    ("Cell Name" :> id) @@ ("AMR Traffic (Erl)" :> q.voice)
        @@ ("Total Data Traffic (MB)" :> q.data)

RECURSIVE Ascending(_)
Ascending(S) ==
    IF S = {} THEN <<>>
    ELSE LET m == CHOOSE x \in S : \A y \in S : x <= y
         IN  << m >> \o Ascending(S \ {m})

Reverse(s) == [i \in 1..Len(s) |-> s[Len(s) + 1 - i]]

(* the cells of a folder, in the order of the user/throughput files *)
CellOrders ==
    UNION {{Ascending(S), Reverse(Ascending(S))} :
              S \in {T \in SUBSET (1..Len(CellList)) : Cardinality(T) <= MaxCellRows}}

File(rows) == [ok |-> TRUE, rows |-> rows]
NoFile == [ok |-> FALSE, rows |-> <<>>]

(* the four partition files: the first half of the cells is of EMS1, the   *)
(* rest of EMS2; the traffic files list their cells in the opposite order  *)
ZteFolder(order, prof) ==
    LET n == Len(order)
        half == (n + 1) \div 2
        tp == [i \in 1..n |-> UserTpRow(CellList[order[i]], prof[order[i]])]
        withTraffic == SelectSeq(order, LAMBDA c : prof[c].traffic)
        tr == [i \in 1..Len(withTraffic) |->
                  TrafficRow(CellList[withTraffic[i]], prof[withTraffic[i]])]
        trHalf == (Len(tr) + 1) \div 2
    IN  ("Automate_3G_ZTE_User_TP_EMS1_BH_" :> File(SubSeq(tp, 1, half)))
            @@ ("Automate_3G_ZTE_User_TP_EMS2_BH_" :> File(SubSeq(tp, half + 1, n)))
            @@ ("Automate_3G_ZTE_Traffic_EMS1_WD_" :> File(Reverse(SubSeq(tr, 1, trHalf))))
            @@ ("Automate_3G_ZTE_Traffic_EMS2_WD_" :>
                   File(Reverse(SubSeq(tr, trHalf + 1, Len(tr)))))

ZteFolders ==
    UNION {{ZteFolder(order, prof) : prof \in [Range(order) -> Profiles]} :
              order \in CellOrders}

(* folders with missing partition files *)
ZteFoldersMissing ==
    LET full == ZteFolder(<< 1, 2 >>, [c \in {1, 2} |-> CHOOSE q \in Profiles : q.data = 3])
    IN  {[f \in DOMAIN full |-> IF f \in gone THEN NoFile ELSE full[f]] :
            gone \in { {"Automate_3G_ZTE_Traffic_EMS2_WD_"},
                       {"Automate_3G_ZTE_User_TP_EMS1_BH_"},
                       {"Automate_3G_ZTE_Traffic_EMS1_WD_", "Automate_3G_ZTE_Traffic_EMS2_WD_"},
                       {"Automate_3G_ZTE_Traffic_EMS1_WD_", "Automate_3G_ZTE_User_TP_EMS2_BH_"},
                       {"Automate_3G_ZTE_User_TP_EMS1_BH_", "Automate_3G_ZTE_User_TP_EMS2_BH_"} }}

(* folders whose traffic files list a cell that no user/throughput file    *)
(* has, and list a cell of the user/throughput files in both partitions    *)
ZteFoldersTrafficOnly ==
    {LET full == ZteFolder(<< 1, 3 >>, prof)
         ems1 == "Automate_3G_ZTE_Traffic_EMS1_WD_"
         ems2 == "Automate_3G_ZTE_Traffic_EMS2_WD_"
         only == TrafficRow(cZ, CHOOSE q \in Profiles : q.data = 4)
     IN  [full EXCEPT ![ems1] = File(<< only >> \o full[ems1].rows),
                      ![ems2] = File(full[ems2].rows \o full[ems1].rows)] :
        prof \in [{1, 3} -> Profiles]}

InitSite ==
    /\ pc = "load"
    /\ proc = "ZTE3G"
    /\ sheets = NoTables
    /\ csv \in ZteFolders \cup ZteFoldersMissing \cup ZteFoldersTrafficOnly
    /\ dataframes = NoTables
    /\ site_tables = NoTables
    /\ df_3g_site = NoTables
    /\ df_4g_site = NoTables
    /\ df_site_data = NoTables
    /\ files = NoTables
    /\ run = NoRun
    /\ aggregate_file = Absent
    /\ now = 0
    /\ PanelIdle

NextSite ==
    \/ Z3_Load
    \/ MergeFinalResult
    \/ StandardizeColumns
    \/ CleanData
    \/ AggregateBySite

SpecSite == InitSite /\ [][NextSite]_vars


(***************************************************************************)
(* The tables of the shared steps, for the properties of the cleaner and   *)
(* of the site aggregation.                                                *)
(***************************************************************************)
StdKey == Tech(proc) \o "_Standardized"
CleanedKey == Tech(proc) \o "_Cleaned"
CellIdCol == Tech(proc) \o "_Cell_ID"
UserCol == Tech(proc) \o "_User"
SpeedCol == Tech(proc) \o "_Speed"
VoiceCol == Tech(proc) \o "_Voice"
DataCol == Tech(proc) \o "_Data"

CleanedDone == CleanedKey \in DOMAIN dataframes
Aggregated == SiteKey(proc) \in DOMAIN dataframes

Standardized == dataframes[StdKey]
Cleaned == dataframes[CleanedKey]
SiteTable == dataframes[SiteKey(proc)]

(* number of rows with Data # 0 among the first i standardized rows *)
KeptUpTo(i) == Cardinality({k \in 1..i : Standardized[k][DataCol] # 0})

(***************************************************************************)
(* C5: clean_data outputs exactly the input rows whose Data is not equal   *)
(* to 0, unchanged and in their input order; the output row count is the   *)
(* input row count minus the number of rows with Data = 0.                 *)
(***************************************************************************)
C5_CleanerRemovesExactlyZeroData ==
    CleanedDone =>
        /\ Len(Cleaned) = Len(Standardized)
               - Cardinality({k \in 1..Len(Standardized) : Standardized[k][DataCol] = 0})
        /\ Len(Cleaned) = KeptUpTo(Len(Standardized))
        /\ \A i \in 1..Len(Standardized) :
               Standardized[i][DataCol] # 0 => Cleaned[KeptUpTo(i)] = Standardized[i]

(* a row with Data = 0 removed from between a row with a positive Data and *)
(* a row without a Data value, which are both kept                         *)
C5_Witness ==
    /\ CleanedDone
    /\ \E i, j, k \in 1..Len(Standardized) :
           /\ i < j /\ j < k
           /\ Standardized[i][DataCol] > 0
           /\ Standardized[j][DataCol] = 0
           /\ Standardized[k][DataCol] = NA
    /\ Len(Cleaned) < Len(Standardized)
    /\ \E m \in 1..Len(Cleaned) : Cleaned[m][DataCol] = NA

(***************************************************************************)
(* Member cells of a site and sums over them, written from the cleaned     *)
(* table directly.                                                         *)
(***************************************************************************)
Members(site) ==
    {i \in 1..Len(Cleaned) : SiteIDOf(Cleaned[i][CellIdCol]) = site}

WithValue(M, col) == {i \in M : Cleaned[i][col] # NA}

RECURSIVE SumOver(_, _)
SumOver(M, col) ==
    IF M = {} THEN 0
    ELSE LET i == CHOOSE x \in M : TRUE
         IN  (IF Cleaned[i][col] = NA THEN 0 ELSE Cleaned[i][col])
                 + SumOver(M \ {i}, col)

OneRowPerSite ==
    /\ {SiteTable[g]["SiteID"] : g \in 1..Len(SiteTable)}
           = {SiteIDOf(Cleaned[i][CellIdCol]) : i \in 1..Len(Cleaned)}
    /\ \A g, h \in 1..Len(SiteTable) :
           SiteTable[g]["SiteID"] = SiteTable[h]["SiteID"] => g = h

SumsOverMembers(row) ==
    LET M == Members(row["SiteID"])
    IN  /\ row[UserCol] = SumOver(M, UserCol)
        /\ row[VoiceCol] = SumOver(M, VoiceCol)
        /\ row[DataCol] = SumOver(M, DataCol)

(* the fraction q is the mean of the Speed of the cells of V *)
IsMeanOver(q, V) ==
    /\ q[2] > 0
    /\ q[1] * Cardinality(V) = SumOver(V, SpeedCol) * q[2]

(***************************************************************************)
(* C6 as stated: one row per distinct SiteID of the cleaned rows; User,    *)
(* Voice and Data are the sums over all member cells and Speed is the      *)
(* unweighted mean of the Speed over all member cells of the site.         *)
(***************************************************************************)
C6_SpeedIsMeanOverAllMembers ==
    Aggregated =>
        /\ OneRowPerSite
        /\ \A g \in 1..Len(SiteTable) :
               /\ SumsOverMembers(SiteTable[g])
               /\ IsMeanOver(SiteTable[g][SpeedCol], Members(SiteTable[g]["SiteID"]))

(***************************************************************************)
(* C6: one row per distinct SiteID of the cleaned rows; User, Voice and    *)
(* Data are the sums of the values present over the member cells; Speed is *)
(* the unweighted mean over the member cells that have a Speed value, and  *)
(* no value when none of them has one.                                     *)
(***************************************************************************)
C6_SpeedIsMeanOverMembersWithValue ==
    Aggregated =>
        /\ OneRowPerSite
        /\ \A g \in 1..Len(SiteTable) :
               LET V == WithValue(Members(SiteTable[g]["SiteID"]), SpeedCol)
               IN  /\ SumsOverMembers(SiteTable[g])
                   /\ IF V = {} THEN SiteTable[g][SpeedCol] = NAq
                      ELSE IsMeanOver(SiteTable[g][SpeedCol], V)

(* a site of three cells, one of them without a Speed value, next to       *)
(* another site                                                            *)
C6_Witness ==
    /\ Aggregated
    /\ Len(SiteTable) >= 2
    /\ \E g \in 1..Len(SiteTable) :
           LET M == Members(SiteTable[g]["SiteID"])
           IN  /\ Cardinality(M) >= 2
               /\ Cardinality(WithValue(M, SpeedCol)) >= 1
               /\ WithValue(M, SpeedCol) # M
               /\ SiteTable[g][SpeedCol] # NAq

(***************************************************************************)
(* C7: the site aggregation does not depend on the order of the cleaned    *)
(* rows: every permutation of them aggregates to the same site rows.       *)
(***************************************************************************)
RowOrders(n) == {f \in [1..n -> 1..n] : \A i, j \in 1..n : f[i] = f[j] => i = j}

IsSubstring1to6(site, str) ==
    /\ Len(site) = (IF Len(str) >= 7 THEN 6 ELSE IF Len(str) = 0 THEN 0 ELSE Len(str) - 1)
    /\ \A k \in 1..Len(site) : site[k] = str[k + 1]

C8_SiteIDIsSubstringOfCellID ==
    /\ pc = "aggregate" => ENABLED AggregateBySite
    /\ Aggregated =>
           /\ \A i \in 1..Len(Cleaned) :
                  \E g \in 1..Len(SiteTable) :
                      IsSubstring1to6(SiteTable[g]["SiteID"], AsStr(Cleaned[i][CellIdCol]))
           /\ \A g \in 1..Len(SiteTable) :
                  \E i \in 1..Len(Cleaned) :
                      IsSubstring1to6(SiteTable[g]["SiteID"], AsStr(Cleaned[i][CellIdCol]))
           /\ \A i, j \in 1..Len(Cleaned) :
                  Cleaned[i][CellIdCol] = Cleaned[j][CellIdCol]
                      => SiteIDOf(Cleaned[i][CellIdCol]) = SiteIDOf(Cleaned[j][CellIdCol])

(* a cell of 3 characters, a cell of 1 character and a cell of 7 or more   *)
(* characters aggregated into sites of 2, 0 and 6 characters               *)
C8_Witness ==
    /\ pc = "done"
    /\ Aggregated
    /\ \E i, j, k \in 1..Len(Cleaned) :
           /\ Len(AsStr(Cleaned[i][CellIdCol])) = 3
           /\ Len(AsStr(Cleaned[j][CellIdCol])) = 1
           /\ Len(AsStr(Cleaned[k][CellIdCol])) >= 7
    /\ {Len(SiteTable[g]["SiteID"]) : g \in 1..Len(SiteTable)} = {0, 2, 6}


(***************************************************************************)
(* script.main, steps "Concatenating 3G Data", "Concatenating 4G Data" and *)
(* "Merging 3G + 4G Data": the four vendor site tables are concatenated    *)
(* per technology and the two results are outer-joined on SiteID, with     *)
(* every missing value replaced by 0.                                      *)
(***************************************************************************)
IsSpeedCol(c) == c \in {"3G_Speed", "4G_Speed"}

(* NaN in a column of the joined table *)
NaOf(c) == IF IsSpeedCol(c) THEN NAq ELSE NA

Cols3G == {"3G_User", "3G_Speed", "3G_Voice", "3G_Data"}
Cols4G == {"4G_User", "4G_Speed", "4G_Voice", "4G_Data"}

KeysOf(df, key) == {df[i][key] : i \in 1..Len(df)}

(* pd.merge(left, right, on=key, how='left'): the keys of the left table   *)
OuterMergeLeft(left, right, key, lcols, rcols) ==
    Flatten([i \in 1..Len(left) |->
        LET matches == SelectSeq(right, LAMBDA r : r[key] = left[i][key])
        IN  IF matches = <<>> THEN << left[i] @@ [c \in rcols |-> NaOf(c)] >>
            ELSE [j \in 1..Len(matches) |-> left[i] @@ matches[j]]])

(* pd.merge(left, right, on=key, how='outer'): the union of the keys,      *)
(* sorted; for a key of both tables every pair of a left and a right row,  *)
(* for a key of one table its rows with NaN in the columns of the other    *)
OuterMerge(left, right, key, lcols, rcols) ==
    LET keys == SortKeys(KeysOf(left, key) \cup KeysOf(right, key))
    IN  Flatten([g \in 1..Len(keys) |->
            LET l == SelectSeq(left, LAMBDA r : r[key] = keys[g])
                r == SelectSeq(right, LAMBDA x : x[key] = keys[g])
            IN  IF r = <<>> THEN [i \in 1..Len(l) |-> l[i] @@ [c \in rcols |-> NaOf(c)]]
                ELSE IF l = <<>>
                     THEN [j \in 1..Len(r) |-> r[j] @@ [c \in lcols |-> NaOf(c)]]
                     ELSE Flatten([i \in 1..Len(l) |->
                              [j \in 1..Len(r) |-> l[i] @@ r[j]]])])

(* DataFrame.fillna(0) *)
fillna(df) ==
    [i \in 1..Len(df) |->
        [c \in DOMAIN df[i] |->
            IF c = "SiteID" THEN df[i][c]
            ELSE IF IsSpeedCol(c) THEN (IF df[i][c] = NAq THEN Frac(0, 1) ELSE df[i][c])
            ELSE IF df[i][c] = NA THEN 0 ELSE df[i][c]]]

Concat3G ==
    /\ pc = "Concatenating 3G Data"
    /\ df_3g_site' = Concat(site_tables["df_3g_eric_site"], site_tables["df_3g_zte_site"])
    /\ run' = EnterStep(run, "Concatenating 3G Data")
    /\ pc' = "Concatenating 4G Data"
    /\ UNCHANGED << proc, sheets, csv, dataframes, site_tables, df_4g_site, df_site_data,
                    files, aggregate_file, now, Panel >>

Concat4G ==
    /\ pc = "Concatenating 4G Data"
    /\ df_4g_site' = Concat(site_tables["df_4g_eric_site"], site_tables["df_4g_zte_site"])
    /\ run' = EnterStep(run, "Concatenating 4G Data")
    /\ pc' = "Merging 3G + 4G Data"
    /\ UNCHANGED << proc, sheets, csv, dataframes, site_tables, df_3g_site, df_site_data,
                    files, aggregate_file, now, Panel >>

Merge3G4G ==
    /\ pc = "Merging 3G + 4G Data"
    /\ df_site_data' = fillna(OuterMerge(df_3g_site, df_4g_site, "SiteID", Cols3G, Cols4G))
    /\ run' = EnterStep(run, "Merging 3G + 4G Data")
    /\ pc' = "Merged"
    /\ UNCHANGED << proc, sheets, csv, dataframes, site_tables, df_3g_site, df_4g_site,
                    files, aggregate_file, now, Panel >>

(***************************************************************************)
(* The vendor site tables at the concatenation: tables as aggregate_by_site*)
(* returns them, one row per SiteID and sorted by SiteID.  The sites of    *)
(* the Ericsson tables are drawn from the first MaxSites sites, those of   *)
(* the ZTE tables from the first MaxZteSites.                              *)
(***************************************************************************)
MaxSites == 3
MaxZteSites == 2

SiteList == << SiteIDOf(cA), SiteIDOf(cZ), SiteIDOf(cShort), SiteIDOf(cOne) >>

SitesUpTo(n) == {SiteList[i] : i \in 1..Min(n, Len(SiteList))}

VendorBase(vendor) == IF vendor = "eric" THEN 1 ELSE 5

(* speedNA: the first site of the table has no Speed value *)
VendorTable(t, vendor, S, speedNA) ==
    LET keys == SortKeys(S)
    IN  [g \in 1..Len(keys) |->
            ("SiteID" :> keys[g])
                @@ ((t \o "_User") :> VendorBase(vendor) + g)
                @@ ((t \o "_Speed") :> IF speedNA /\ g = 1 THEN NAq
                                       ELSE Frac(10 * VendorBase(vendor) + g, 2))
                @@ ((t \o "_Voice") :> g)
                @@ ((t \o "_Data") :> VendorBase(vendor) + 1)]

EricTables(t) ==
    {VendorTable(t, "eric", S, b) : S \in SUBSET SitesUpTo(MaxSites), b \in BOOLEAN}

ZteTables(t) ==
    {VendorTable(t, "zte", S, FALSE) : S \in SUBSET SitesUpTo(MaxZteSites)}

InitMerge ==
    /\ pc = "Concatenating 3G Data"
    /\ proc = "main"
    /\ sheets = NoTables
    /\ csv = NoTables
    /\ dataframes = NoTables
    /\ \E e3 \in EricTables("3G"), z3 \in ZteTables("3G"),
          e4 \in EricTables("4G"), z4 \in ZteTables("4G") :
           site_tables = ("df_3g_eric_site" :> e3) @@ ("df_3g_zte_site" :> z3)
                             @@ ("df_4g_eric_site" :> e4) @@ ("df_4g_zte_site" :> z4)
    /\ df_3g_site = NoTables
    /\ df_4g_site = NoTables
    /\ df_site_data = NoTables
    /\ files = NoTables
    /\ run = NoRun
    /\ aggregate_file = Absent
    /\ now = 0
    /\ PanelIdle

NextMerge ==
    \/ Concat3G
    \/ Concat4G
    \/ Merge3G4G

SpecMerge == InitMerge /\ [][NextMerge]_vars

(***************************************************************************)
(* C9: the 3G/4G merge never drops a site: every SiteID of the 3G or of    *)
(* the 4G site table is in the combined table, the combined table has at   *)
(* least max(|3G rows|, |4G rows|) rows, a site of one technology only has *)
(* 0 in every field of the other technology, and no field of a combined    *)
(* row is without a value.                                                 *)
(***************************************************************************)
Merged == pc = "Merged"

Zero(c) == IF IsSpeedCol(c) THEN Frac(0, 1) ELSE 0

C9_MergeNeverDropsASite ==
    Merged =>
        /\ KeysOf(df_3g_site, "SiteID") \cup KeysOf(df_4g_site, "SiteID")
               \subseteq KeysOf(df_site_data, "SiteID")
        /\ Len(df_site_data) >= Len(df_3g_site)
        /\ Len(df_site_data) >= Len(df_4g_site)
        /\ \A i \in 1..Len(df_site_data) :
               LET row == df_site_data[i]
               IN  /\ DOMAIN row = {"SiteID"} \cup Cols3G \cup Cols4G
                   /\ \A c \in Cols3G \cup Cols4G : row[c] # NaOf(c)
                   /\ row["SiteID"] \notin KeysOf(df_3g_site, "SiteID")
                          => \A c \in Cols3G : row[c] = Zero(c)
                   /\ row["SiteID"] \notin KeysOf(df_4g_site, "SiteID")
                          => \A c \in Cols4G : row[c] = Zero(c)

(* a site of 4G only and a site of 3G only, next to a site of both *)
C9_Witness ==
    /\ Merged
    /\ \E i, j, k \in 1..Len(df_site_data) :
           /\ df_site_data[i]["SiteID"] \in
                  KeysOf(df_4g_site, "SiteID") \ KeysOf(df_3g_site, "SiteID")
           /\ \A c \in Cols3G : df_site_data[i][c] = Zero(c)
           /\ df_site_data[i]["4G_User"] > 0
           /\ df_site_data[j]["SiteID"] \in
                  KeysOf(df_3g_site, "SiteID") \ KeysOf(df_4g_site, "SiteID")
           /\ \A c \in Cols4G : df_site_data[j][c] = Zero(c)
           /\ df_site_data[k]["SiteID"] \in
                  KeysOf(df_3g_site, "SiteID") \cap KeysOf(df_4g_site, "SiteID")

OtherSite == SiteIDOf(cZ)     \* a site without a cell in the ZTE 3G files

Others3G == {VendorTable("3G", "eric", S, FALSE) : S \in {{}, {OtherSite}}}

Others4G ==
    {VendorTable("4G", "eric", S, FALSE) :
        S \in {{}, {SiteIDOf(cA)}, {SiteIDOf(cShort), OtherSite}}}

ReturnSiteTable ==
    /\ pc = "done" /\ proc = "ZTE3G"
    /\ \E e3 \in Others3G, e4 \in Others4G, z4 \in ZteTables("4G") :
           site_tables' = ("df_3g_eric_site" :> e3)
                              @@ ("df_3g_zte_site" :> dataframes[SiteKey(proc)])
                              @@ ("df_4g_eric_site" :> e4) @@ ("df_4g_zte_site" :> z4)
    /\ pc' = "Concatenating 3G Data"
    /\ UNCHANGED << proc, sheets, csv, dataframes, df_3g_site, df_4g_site, df_site_data,
                    files, run, aggregate_file, now, Panel >>

NextEnd ==
    \/ NextSite
    \/ ReturnSiteTable
    \/ Concat3G
    \/ Concat4G
    \/ Merge3G4G

SpecEnd == InitSite /\ [][NextEnd]_vars

(* the sites of the cells of the standardized table, and the sites all of  *)
(* whose cells have a Data total of 0                                      *)
SitesOfCells == {SiteIDOf(Standardized[i][CellIdCol]) : i \in 1..Len(Standardized)}

ZeroDataSites ==
    {s \in SitesOfCells :
        \A i \in 1..Len(Standardized) :
            SiteIDOf(Standardized[i][CellIdCol]) = s => Standardized[i][DataCol] = 0}

(***************************************************************************)
(* C11: a site whose 3G Data total is 0 in every one of its cells has no   *)
(* row in the 3G site table after cleaning and aggregation; if it has 4G   *)
(* data it has a row in the combined table, with every 3G field 0.         *)
(***************************************************************************)
C11_ZeroDataSiteKeptBy4G ==
    /\ Aggregated =>
           \A s \in ZeroDataSites : s \notin KeysOf(SiteTable, "SiteID")
    /\ (Merged /\ proc = "ZTE3G") =>
           \A s \in ZeroDataSites :
               /\ s \notin KeysOf(df_3g_site, "SiteID")
               /\ s \in KeysOf(df_4g_site, "SiteID") =>
                      /\ s \in KeysOf(df_site_data, "SiteID")
                      /\ \A i \in 1..Len(df_site_data) :
                             df_site_data[i]["SiteID"] = s =>
                                 /\ \A c \in Cols3G : df_site_data[i][c] = Zero(c)
                                 /\ df_site_data[i]["4G_User"] > 0

(* both cells of a site have Data 0, the site is in the 4G table and in    *)
(* the combined table, beside a site that kept its 3G row                  *)
C11_Witness ==
    /\ Merged /\ proc = "ZTE3G"
    /\ \E s \in ZeroDataSites :
           /\ Cardinality({i \in 1..Len(Standardized) :
                              SiteIDOf(Standardized[i][CellIdCol]) = s}) >= 2
           /\ s \in KeysOf(df_4g_site, "SiteID")
           /\ s \in KeysOf(df_site_data, "SiteID")
    /\ \E i \in 1..Len(df_site_data) : df_site_data[i]["3G_User"] > 0


(* the rows of the partition files of a category that were found and read, *)
(* EMS1 before EMS2; whether there is such a file                          *)
FoundRows(ems1, ems2) ==
    (IF csv[ems1].ok THEN csv[ems1].rows ELSE << >>)
        \o (IF csv[ems2].ok THEN csv[ems2].rows ELSE << >>)

AnyFound(ems1, ems2) == csv[ems1].ok \/ csv[ems2].ok

TrafficFound == AnyFound(TrafficPatterns[1], TrafficPatterns[2])
UserTpFound == AnyFound(UserTpPatterns[1], UserTpPatterns[2])

(***************************************************************************)
(* C18: in the ZTE extractor a missing or unreadable partition file is     *)
(* skipped and the table of its category is built from the partitions      *)
(* found; the load raises exactly when a category has no partition file    *)
(* that could be loaded.                                                   *)
(***************************************************************************)
C18_LoadRaisesIffCategoryEmpty ==
    (proc = "ZTE3G" /\ pc # "load") =>
        /\ (pc = "failed") <=> (~TrafficFound \/ ~UserTpFound)
        /\ TrafficFound =>
               /\ "3G_ZTE_Traffic" \in DOMAIN dataframes
               /\ dataframes["3G_ZTE_Traffic"]
                      = FoundRows(TrafficPatterns[1], TrafficPatterns[2])
        /\ (TrafficFound /\ UserTpFound) =>
               /\ "3G_ZTE_USER_THROUGHPUT" \in DOMAIN dataframes
               /\ dataframes["3G_ZTE_USER_THROUGHPUT"]
                      = FoundRows(UserTpPatterns[1], UserTpPatterns[2])

(* one partition of each category is missing and the extractor went on     *)
(* with the rows of the other one                                          *)
C18_Witness ==
    /\ proc = "ZTE3G" /\ pc = "done"
    /\ ~csv[TrafficPatterns[1]].ok /\ csv[TrafficPatterns[2]].ok
    /\ csv[UserTpPatterns[1]].ok /\ ~csv[UserTpPatterns[2]].ok
    /\ Len(dataframes["3G_ZTE_Traffic"]) > 0
    /\ Len(dataframes["3G_ZTE_USER_THROUGHPUT"]) > 0

(* no partition of a category could be loaded: the load raised             *)
C18_WitnessFatal ==
    /\ proc = "ZTE3G" /\ pc = "failed"
    /\ TrafficFound /\ ~UserTpFound


(* C19 vocabulary: the cell names of a table, the merged result *)
CellNames(df) == {df[i]["Cell Name"] : i \in 1..Len(df)}

ThroughputRows == FoundRows(UserTpPatterns[1], UserTpPatterns[2])
TrafficRows == FoundRows(TrafficPatterns[1], TrafficPatterns[2])
ZteMerged == proc = "ZTE3G" /\ "3G_ZTE_DATA" \in DOMAIN dataframes
ZteResult == dataframes["3G_ZTE_DATA"]

(***************************************************************************)
(* C19: the ZTE join is a left join keyed on the user/throughput table.    *)
(* The cells of the merged result are the cells of the concatenated        *)
(* user/throughput partitions; a cell that only the traffic files have is  *)
(* not in the result; a cell that only the user/throughput files have is   *)
(* in it with no-value Voice and Data; a cell of both carries the Voice    *)
(* and Data of one of its traffic rows.                                    *)
(***************************************************************************)
C19_JoinKeyedOnThroughput ==
    ZteMerged =>
        /\ CellNames(ZteResult) = CellNames(ThroughputRows)
        /\ \A c \in CellNames(TrafficRows) \ CellNames(ThroughputRows) :
               c \notin CellNames(ZteResult)
        /\ \A i \in 1..Len(ZteResult) :
               LET r == ZteResult[i]
               IN  /\ \E j \in 1..Len(ThroughputRows) :
                          /\ ThroughputRows[j]["Cell Name"] = r["Cell Name"]
                          /\ ThroughputRows[j]["Average HSDPA Users"]
                                 = r["Average HSDPA Users"]
                          /\ ThroughputRows[j]["User DL Throughput (kbps)"]
                                 = r["User DL Throughput (kbps)"]
                   /\ IF r["Cell Name"] \in CellNames(TrafficRows)
                      THEN \E j \in 1..Len(TrafficRows) :
                               /\ TrafficRows[j]["Cell Name"] = r["Cell Name"]
                               /\ TrafficRows[j]["AMR Traffic (Erl)"]
                                      = r["AMR Traffic (Erl)"]
                               /\ TrafficRows[j]["Total Data Traffic (MB)"]
                                      = r["Total Data Traffic (MB)"]
                      ELSE /\ r["AMR Traffic (Erl)"] = NA
                           /\ r["Total Data Traffic (MB)"] = NA

(* the traffic files have a cell of their own, the user/throughput files   *)
(* have one of their own and one that the traffic files have too           *)
C19_Witness ==
    /\ ZteMerged
    /\ CellNames(TrafficRows) \ CellNames(ThroughputRows) # {}
    /\ CellNames(ThroughputRows) \ CellNames(TrafficRows) # {}
    /\ CellNames(ThroughputRows) \cap CellNames(TrafficRows) # {}
    /\ \E i \in 1..Len(ZteResult) : ZteResult[i]["Total Data Traffic (MB)"] = NA


(***************************************************************************)
(* The three extractors that have standardize_columns, each from its own   *)
(* input files.                                                            *)
(***************************************************************************)
InitExtractors == Init \/ InitSite

NextExtractors == Next \/ NextSite

SpecExtractors == InitExtractors /\ [][NextExtractors]_vars

(* the five values of a row of an extractor's merged result, in the order  *)
(* Cell_ID, User, Speed, Voice, Data, and of a standardized row            *)
FinalFive(r) ==
    IF proc = "ZTE3G"
    THEN << r["Cell Name"], r["Average HSDPA Users"], r["User DL Throughput (kbps)"],
            r["AMR Traffic (Erl)"], r["Total Data Traffic (MB)"] >>
    ELSE << FinalId(r), FinalUser(r), FinalSpeed(r), FinalVoice(r), FinalData(r) >>

StdFive(r) == << r[CellIdCol], r[UserCol], r[SpeedCol], r[VoiceCol], r[DataCol] >>

(***************************************************************************)
(* C20: standardize_columns is a pure renaming.  The standardized table    *)
(* has the rows of the merged result in the same order with the same five  *)
(* values under the technology-prefixed names Cell_ID, User, Speed, Voice, *)
(* Data and no other column; the stored merged result and every other      *)
(* stored table are as before.                                             *)
(***************************************************************************)
C20_StandardizeIsPureRenaming ==
    [][(pc = "standardize" /\ pc' = "clean") =>
          LET old == dataframes[FinalKey(proc)]
              new == dataframes'[StdKey]
          IN  /\ \A k \in DOMAIN dataframes : dataframes'[k] = dataframes[k]
              /\ DOMAIN dataframes' = DOMAIN dataframes \cup {StdKey}
              /\ Len(new) = Len(old)
              /\ \A i \in 1..Len(old) :
                     /\ DOMAIN new[i] = {CellIdCol, UserCol, SpeedCol, VoiceCol, DataCol}
                     /\ Cardinality(DOMAIN old[i]) = 5
                     /\ StdFive(new[i]) = FinalFive(old[i])]_vars

(* a merged result of two cells or more, one with a no-value Speed, has    *)
(* been standardized                                                       *)
C20_Witness ==
    /\ pc = "clean"
    /\ Len(Standardized) >= 2
    /\ Len(FinalRows) = Len(Standardized)
    /\ \E i \in 1..Len(Standardized) : Standardized[i][SpeedCol] = NA
    /\ \E i \in 1..Len(Standardized) : Standardized[i][SpeedCol] # NA


(***************************************************************************)
(* script.main after the merge: date tagging, the retention write of       *)
(* Aggregate.xlsx, the external copy, the notifications and the except     *)
(* handler.  Dates are day numbers; the clock counts half days, so that a  *)
(* run at midnight and a run during the day are both there.                *)
(***************************************************************************)
RetentionDays == 30     \* timedelta(days=30)

MaxRuns == 2            \* runs of script.main, one after the other

Midnight(d) == 2 * d    \* pd.to_datetime('YYYY-MM-DD') on the clock's scale

ArrangedColumns ==
    {"Date", "SiteID", "3G_User", "3G_Speed", "3G_Voice", "3G_Data",
     "4G_User", "4G_Speed", "4G_Voice", "4G_Data"}

final_column_names ==
    ("SiteID" :> "Site") @@ ("3G_User" :> "3G Sub") @@ ("3G_Speed" :> "3G Speed")
        @@ ("3G_Voice" :> "3G Voice traffic") @@ ("3G_Data" :> "3G Data traffic")
        @@ ("4G_User" :> "4G Sub") @@ ("4G_Speed" :> "4G Speed")
        @@ ("4G_Voice" :> "4G Voice traffic") @@ ("4G_Data" :> "4G Data traffic")

(* df_site_data['Date'] = process_date; reorder; rename *)
tag_and_rename(df, process_date) ==
    Rename(Project([i \in 1..Len(df) |-> ("Date" :> process_date) @@ df[i]],
                   ArrangedColumns),
           final_column_names)

(***************************************************************************)
(* Aggregate.xlsx holds cells: a text cell is a string, a number cell is   *)
(* the mark "#" followed by the digits of the number.  pd.read_excel with  *)
(* its defaults reads the strings of na_values as NaN and interprets a     *)
(* column all of whose values are numbers or numeric strings as numbers;   *)
(* to_excel writes NaN as na_rep = ''.  Only the Site column holds text.   *)
(***************************************************************************)
NaNSite == << "NaN" >>

(* of the default na_values, the strings over the alphabet of the model *)
NaTokens == {<< >>, << "N", "A" >>}

IsNumberCell(v) == v # << >> /\ Head(v) = "#"

IsDigits(v) ==
    /\ v # << >>
    /\ \A i \in 1..Len(v) : \E d \in 1..Len(DigitChars) : DigitChars[d] = v[i]

RECURSIVE StripZeros(_)
StripZeros(s) == IF Len(s) > 1 /\ Head(s) = "0" THEN StripZeros(Tail(s)) ELSE s

NumberCell(s) == << "#" >> \o StripZeros(s)

read_excel(file) ==
    LET site(i) == IF file.rows[i]["Site"] \in NaTokens THEN NaNSite
                   ELSE file.rows[i]["Site"]
        numeric == \A i \in 1..Len(file.rows) :
                       site(i) = NaNSite \/ IsNumberCell(site(i)) \/ IsDigits(site(i))
    IN  [i \in 1..Len(file.rows) |->
            [file.rows[i] EXCEPT !["Site"] =
                IF numeric /\ IsDigits(site(i)) THEN NumberCell(site(i)) ELSE site(i)]]

to_excel(df) ==
    [state |-> "complete",
     rows |-> [i \in 1..Len(df) |->
                  [df[i] EXCEPT !["Site"] = IF @ = NaNSite THEN << >> ELSE @]]]

Torn == [state |-> "torn", rows |-> << >>]

(* mutant: the table is written in the order of the concatenation *)
sort_values_none(df) == df

(* df.sort_values('Date'): rows of the same Date stay in table order *)
RECURSIVE sort_values_Date(_)
sort_values_Date(df) ==
    IF df = << >> THEN << >>
    ELSE LET d == CHOOSE x \in {df[i]["Date"] : i \in 1..Len(df)} :
                      \A i \in 1..Len(df) : x <= df[i]["Date"]
             first == SelectSeq(df, LAMBDA r : r["Date"] = d)
             rest == SelectSeq(df, LAMBDA r : r["Date"] # d)
         IN  first \o sort_values_Date(rest)

(* mutant: the cutoff is counted back from the latest Date of the table *)
KeepRecentOfLatest(df, clock) ==
    SelectSeq(df, LAMBDA r :
        \A i \in 1..Len(df) : r["Date"] >= df[i]["Date"] - RetentionDays)

(* the rows whose Date is not before the cutoff: clock - 30 days *)
KeepRecent(df, clock) ==
    SelectSeq(df, LAMBDA r : Midnight(r["Date"]) >= clock - 2 * RetentionDays)

(* the table to write: the branch of an existing file, and of none *)
combine_existing(df_existing, df_new, clock) ==
    sort_values_Date(KeepRecent(Concat(df_existing, df_new), clock))

combine_absent(df_new, clock) == df_new

Tables == << proc, sheets, csv, dataframes, site_tables, df_3g_site, df_4g_site, files >>

Say(r, kind, step) ==
    [r EXCEPT !.output = Append(@, [kind |-> kind, step |-> step])]

TagDate ==
    /\ pc = "Merged"
    /\ df_site_data' = tag_and_rename(df_site_data, run.process_date)
    /\ pc' = "Saving to Excel"
    /\ UNCHANGED << Tables, run, aggregate_file, now, Panel >>

(* lines 396-424: read the existing table, append, evict, sort *)
SaveRead ==
    /\ pc = "Saving to Excel"
    /\ LET r == EnterStep(run, "Saving to Excel")
       IN  IF aggregate_file.state = "absent"
           THEN /\ run' = [r EXCEPT !.df_combined = combine_absent(df_site_data, now)]
                /\ pc' = "to_excel"
           ELSE \E ok \in {b \in BOOLEAN : b => aggregate_file.state = "complete"} :
                    IF ok
                    THEN /\ run' = [r EXCEPT !.df_combined =
                                       combine_existing(read_excel(aggregate_file),
                                                        df_site_data, now)]
                         /\ pc' = "to_excel"
                    ELSE /\ run' = [r EXCEPT !.raised_in = "Saving to Excel",
                                             !.fault = "read"]
                         /\ pc' = "except"
    /\ UNCHANGED << Tables, df_site_data, aggregate_file, now, Panel >>

(* line 426, to_excel: the file is opened for writing (and is empty from   *)
(* then on), or cannot be opened                                           *)
WriteOpen ==
    /\ pc = "to_excel"
    /\ \E ok \in BOOLEAN :
           IF ok
           THEN /\ aggregate_file' = Torn
                /\ pc' = "to_excel: save"
                /\ run' = run
           ELSE /\ run' = [run EXCEPT !.raised_in = "Saving to Excel", !.fault = "write"]
                /\ pc' = "except"
                /\ aggregate_file' = aggregate_file
    /\ UNCHANGED << Tables, df_site_data, now, Panel >>

(* line 426, to_excel: the workbook is written and the file closed, or the *)
(* write fails and leaves what was written so far                          *)
WriteClose ==
    /\ pc = "to_excel: save"
    /\ \E ok \in BOOLEAN :
           IF ok
           THEN /\ aggregate_file' = to_excel(run.df_combined)
                /\ run' = [run EXCEPT !.written_at = now]
                /\ pc' = "Copying to external folder"
           ELSE /\ run' = [run EXCEPT !.raised_in = "Saving to Excel", !.fault = "write"]
                /\ pc' = "except"
                /\ aggregate_file' = aggregate_file
    /\ UNCHANGED << Tables, df_site_data, now, Panel >>

(* lines 430-451: the copy has its own try / except, which prints a warning *)
CopyToExternal ==
    /\ pc = "Copying to external folder"
    /\ \E ok \in BOOLEAN :
           LET r == EnterStep(run, "Copying to external folder")
           IN  run' = IF ok THEN r ELSE Say(r, "warning", r.current_step)
    /\ pc' = "send_success"
    /\ UNCHANGED << Tables, df_site_data, aggregate_file, now, Panel >>

(* lines 458-460: if account: notifier.send_success(...) *)
SendSuccess ==
    /\ pc = "send_success"
    /\ run' = IF run.account THEN Say(run, "send_success", "") ELSE run
    /\ pc' = "exit"
    /\ UNCHANGED << Tables, df_site_data, aggregate_file, now, Panel >>

(* lines 462-481: the handler of the try block of main *)
HandleExceptionAsSuccess ==
    /\ pc = "except"
    /\ run' = Say(run, "send_success", "")
    /\ pc' = "exit"
    /\ UNCHANGED << Tables, df_site_data, aggregate_file, now, Panel >>

HandleException ==
    /\ pc = "except"
    /\ LET r == Say(run, "print_failure", run.current_step)
       IN  IF r.account
           THEN run' = Say(r, "send_failure", r.current_step)
           ELSE IF ~r.skip_email
                THEN \E account \in BOOLEAN :
                         run' = IF account
                                THEN Say([r EXCEPT !.account = TRUE],
                                         "send_failure", r.current_step)
                                ELSE r
                ELSE run' = r
    /\ pc' = "exit"
    /\ UNCHANGED << Tables, df_site_data, aggregate_file, now, Panel >>

(* the locals of main at the start of a run *)
NewRun(number, skip_email, process_date) ==
    [NoRun EXCEPT !.number = number, !.skip_email = skip_email,
                  !.account = ~skip_email, !.process_date = process_date,
                  !.prior = aggregate_file]

(* --process-date: none (yesterday: datetime.now() - timedelta(days=1)), or *)
(* a date 30 or 31 days back                                               *)
ProcessDates(clock) == {(clock - 2) \div 2, clock \div 2 - 30, clock \div 2 - 31}

(* a numeric cell id whose site starts with 0: site 012345 *)
cZero == IntId(1012345)

(* the four vendor site tables handed to the concatenation *)
TailTables ==
    {("df_3g_eric_site" :> VendorTable("3G", "eric", {s}, FALSE))
         @@ ("df_3g_zte_site" :> VendorTable("3G", "zte", S3, FALSE))
         @@ ("df_4g_eric_site" :> VendorTable("4G", "eric", S4, FALSE))
         @@ ("df_4g_zte_site" :> << >>) :
        s \in {SiteIDOf(cA), SiteIDOf(cZero), SiteIDOf(cOne)},
        S3 \in {{}, {SiteIDOf(cA)}}, S4 \in {{}, {SiteIDOf(cZ)}}}

(* main is started again, at once or a day later, with the same arguments  *)
(* or for another date                                                     *)
StartRun ==
    /\ pc = "exit" /\ run.number < MaxRuns
    /\ "df_4g_zte_site" \in DOMAIN site_tables
    /\ \E later \in {0, 2} : now' = now + later
    /\ \E d \in {run.process_date} \cup ProcessDates(now') :
           run' = [NewRun(run.number + 1, run.skip_email, d) EXCEPT !.prior = aggregate_file]
    /\ df_3g_site' = NoTables /\ df_4g_site' = NoTables /\ df_site_data' = NoTables
    /\ pc' = "Concatenating 3G Data"
    /\ UNCHANGED << proc, sheets, csv, dataframes, site_tables, files, aggregate_file, Panel >>

(* Aggregate.xlsx as earlier runs left it: none yet, or the rows of a site *)
(* written over the last weeks, sorted by Date                             *)
PriorRow(d) ==
    tag_and_rename(fillna(OuterMerge(VendorTable("3G", "eric", {SiteIDOf(cB)}, FALSE), << >>,
                                     "SiteID", Cols3G, Cols4G)), d)

PriorFiles(clock) ==
    {Absent,
     to_excel(PriorRow(clock \div 2 - 35) \o PriorRow(clock \div 2 - 30)
                  \o PriorRow(clock \div 2 - 2))}

InitTail ==
    /\ pc = "Concatenating 3G Data"
    /\ proc = "main"
    /\ sheets = NoTables
    /\ csv = NoTables
    /\ dataframes = NoTables
    /\ site_tables \in TailTables
    /\ df_3g_site = NoTables
    /\ df_4g_site = NoTables
    /\ df_site_data = NoTables
    /\ files = NoTables
    /\ now \in {200, 201}
    /\ PanelIdle
    /\ aggregate_file \in PriorFiles(now)
    /\ \E skip_email \in BOOLEAN, d \in ProcessDates(now) :
           run = NewRun(1, skip_email, d)

NextTail ==
    \/ Concat3G
    \/ Concat4G
    \/ Merge3G4G
    \/ TagDate
    \/ SaveRead
    \/ WriteOpen
    \/ WriteClose
    \/ CopyToExternal
    \/ SendSuccess
    \/ HandleException
    \/ StartRun

SpecTail == InitTail /\ [][NextTail]_vars


(* vocabulary of the retention write *)
Persisted == aggregate_file.rows
HasWritten == aggregate_file.state = "complete" /\ run.written_at # 0
Outputs(kind) == {run.output[i].step : i \in {j \in 1..Len(run.output) : run.output[j].kind = kind}}
RunFailed == pc = "exit" /\ run.raised_in # ""

C17_PersistenceFailureFailsRun ==
    /\ run.fault \in {"read", "write"} => pc \in {"except", "exit"}
    /\ (pc = "exit" /\ run.fault \in {"read", "write"}) =>
           /\ Outputs("send_success") = {}
           /\ Outputs("print_failure") = {"Saving to Excel"}
           /\ Outputs("send_failure") \subseteq {"Saving to Excel"}
           /\ run.account => Outputs("send_failure") # {}
           /\ run.fault = "read" => aggregate_file = run.prior

(* a second run could not read the table the first run wrote; the failure  *)
(* was sent and the table is still the one of the first run                *)
C17_Witness ==
    /\ pc = "exit" /\ run.fault = "read" /\ run.number = 2
    /\ run.account
    /\ Outputs("send_failure") = {"Saving to Excel"}
    /\ aggregate_file.state = "complete"
    /\ Len(Persisted) > 0

(* the write failed after the file was opened *)
C17_WitnessWrite ==
    /\ pc = "exit" /\ run.fault = "write"
    /\ aggregate_file = Torn
    /\ run.prior.state = "complete"


(***************************************************************************)
(* script.main from its first step.  The download folder holds what the    *)
(* mail delivered (or, with --skip-email, what is there already): one      *)
(* input folder per processor.                                             *)
(***************************************************************************)
(* the calls main makes on a processor, load to aggregate_by_site *)
Pipeline(p, folder) ==
    LET loaded == CASE p = "Ericsson3G" -> transform_all(load_all_3g_data(NoTables, folder))
                    [] p = "ZTE3G" -> load_all_3g_zte_data(NoTables, folder)
                    [] p = "Ericsson4G" -> load_all_4g_ericsson_data(NoTables, folder)
        merged == CASE p = "Ericsson3G" -> merge_final_result_3G(loaded)
                    [] p = "ZTE3G" -> merge_final_result_ZTE(loaded)
                    [] p = "Ericsson4G" -> merge_final_result_4G(loaded)
    IN  aggregate_by_site(clean_data(standardize_columns(merged, p), p), p)

LoadRaises(p, folder) ==
    CASE p = "Ericsson3G" -> load_raises_3G(folder)
      [] p = "ZTE3G" -> load_raises_ZTE(folder)
      [] p = "Ericsson4G" -> load_raises_4G(folder)

(* a step that may raise: when it does the except handler is next *)
StepRaises(step, fault) ==
    /\ run' = [EnterStep(run, step) EXCEPT !.raised_in = step, !.fault = fault]
    /\ pc' = "except"

Locals == << df_3g_site, df_4g_site, df_site_data, aggregate_file, now, Panel >>

(* lines 182-189 *)
ConnectExchange ==
    /\ pc = "Connect Exchange"
    /\ \E account \in BOOLEAN :
           IF account
           THEN /\ run' = [EnterStep(run, "Connect Exchange") EXCEPT !.account = TRUE]
                /\ pc' = "Clean Downloads"
           ELSE StepRaises("Connect Exchange", "connect")
    /\ UNCHANGED << Tables, Locals >>

(* lines 192-254: rmtree / makedirs, then the two downloads, each of which *)
(* can raise                                                               *)
MailStep(step, next) ==
    /\ \E ok \in BOOLEAN :
           IF ok THEN run' = EnterStep(run, step) /\ pc' = next
           ELSE StepRaises(step, "io")
    /\ UNCHANGED << Tables, Locals >>

CleanDownloads ==
    /\ pc = "Clean Downloads"
    /\ MailStep("Clean Downloads", "Download Ericsson KPIs (Personal)")

DownloadEricsson ==
    /\ pc = "Download Ericsson KPIs (Personal)"
    /\ MailStep("Download Ericsson KPIs (Personal)", "Download ZTE KPIs (Shared)")

DownloadZTE ==
    /\ pc = "Download ZTE KPIs (Shared)"
    /\ MailStep("Download ZTE KPIs (Shared)", "Extract ZIPs")

(* lines 257-261: extract_all_zips handles the errors of each archive *)
ExtractZIPs ==
    /\ pc = "Extract ZIPs"
    /\ run' = EnterStep(run, "Extract ZIPs")
    /\ pc' = "Processing 3G Ericsson"
    /\ UNCHANGED << Tables, Locals >>

(* lines 264-300: a processor is created and run; its site table is kept   *)
Processing(step, p, table, next) ==
    /\ LET r == [EnterStep(run, step) EXCEPT !.attempted = @ \cup {p}]
       IN  IF LoadRaises(p, files[p])
           THEN /\ run' = [r EXCEPT !.raised_in = step, !.fault = "load"]
                /\ pc' = "except"
                /\ UNCHANGED << dataframes, site_tables >>
           ELSE /\ run' = r
                /\ pc' = next
                /\ dataframes' = Pipeline(p, files[p])
                /\ site_tables' = (table :> dataframes'[SiteKey(p)]) @@ site_tables
    /\ UNCHANGED << proc, sheets, csv, files, Locals >>

Processing3GEricsson ==
    /\ pc = "Processing 3G Ericsson"
    /\ Processing("Processing 3G Ericsson", "Ericsson3G", "df_3g_eric_site", "Processing 3G ZTE")

Processing3GZTE ==
    /\ pc = "Processing 3G ZTE"
    /\ Processing("Processing 3G ZTE", "ZTE3G", "df_3g_zte_site", "Processing 4G Ericsson")

Processing4GEricsson ==
    /\ pc = "Processing 4G Ericsson"
    /\ Processing("Processing 4G Ericsson", "Ericsson4G", "df_4g_eric_site", "Processing 4G ZTE")

(* ZTE4GProcessor.load_all_4g_zte_data: the folder is the set of the file  *)
(* patterns that a readable CSV file matches; a category none of whose     *)
(* patterns is matched raises ValueError                                   *)
TrafficPatterns4G ==
    {"Automate_4G_ZTE_Traffic_EMS1_WD_", "Automate_4G_ZTE_Traffic_EMS2_WD_"}

UserTpPatterns4G ==
    {"Automate_4G_ZTE_User_TP_EMS1_BH_", "Automate_4G_ZTE_User_TP_EMS2_BH_"}

load_raises_ZTE4G(found) ==
    found \cap TrafficPatterns4G = {} \/ found \cap UserTpPatterns4G = {}

(* lines 304-311: ZTE4GProcessor has load_all_4g_zte_data and              *)
(* merge_final_result only; when the load has not raised, the call of      *)
(* standardize_columns raises AttributeError                               *)
Processing4GZTE ==
    /\ pc = "Processing 4G ZTE"
    /\ run' = [EnterStep(run, "Processing 4G ZTE") EXCEPT
                   !.attempted = @ \cup {"ZTE4G"},
                   !.raised_in = "Processing 4G ZTE",
                   !.fault = IF load_raises_ZTE4G(files["ZTE4G"]) THEN "load"
                             ELSE "attribute"]
    /\ pc' = "except"
    /\ UNCHANGED << Tables, Locals >>

(* the folders: complete, or with a file of one processor missing *)
RunFolders ==
    LET e3 == Folder("Ericsson3G", FixedLoad, FixedTp, FixedVoice, FixedData)
        e4 == Folder("Ericsson4G", FixedLoad, FixedTp, FixedVoice, FixedData)
        z3 == ZteFolder(<< 1, 3 >>, [c \in {1, 3} |-> CHOOSE q \in Profiles : q.data = 3])
    IN  {("Ericsson3G" :> f3) @@ ("ZTE3G" :> fz) @@ ("Ericsson4G" :> f4) @@ ("ZTE4G" :> f4z) :
            f4z \in {TrafficPatterns4G \cup UserTpPatterns4G, TrafficPatterns4G},
            f3 \in {e3, Restrict(e3, ThroughputSheets3G)},
            fz \in {z3, [z3 EXCEPT !["Automate_3G_ZTE_User_TP_EMS1_BH_"] = NoFile,
                                   !["Automate_3G_ZTE_User_TP_EMS2_BH_"] = NoFile]},
            f4 \in {e4, Restrict(e4, LteSheets4G)}}

InitMain ==
    /\ proc = "main"
    /\ sheets = NoTables
    /\ csv = NoTables
    /\ dataframes = NoTables
    /\ site_tables = NoTables
    /\ df_3g_site = NoTables
    /\ df_4g_site = NoTables
    /\ df_site_data = NoTables
    /\ files \in RunFolders
    /\ now = 201
    /\ PanelIdle
    /\ aggregate_file \in PriorFiles(now)
    /\ \E skip_email \in BOOLEAN :
           /\ run = [NewRun(1, skip_email, (now - 2) \div 2) EXCEPT !.account = FALSE]
           /\ pc = IF skip_email THEN "Extract ZIPs" ELSE "Connect Exchange"

NextMain ==
    \/ ConnectExchange
    \/ CleanDownloads
    \/ DownloadEricsson
    \/ DownloadZTE
    \/ ExtractZIPs
    \/ Processing3GEricsson
    \/ Processing3GZTE
    \/ Processing4GEricsson
    \/ Processing4GZTE
    \/ HandleException

SpecMain == InitMain /\ [][NextMain]_vars

(* main from its first step, and its steps after the processors from the   *)
(* site tables they are to deliver                                         *)
InitRun == InitMain \/ InitTail

NextRun == NextMain \/ NextTail

SpecRun == InitRun /\ [][NextRun]_vars

ProcessingSteps ==
    {"Processing 3G Ericsson", "Processing 3G ZTE", "Processing 4G Ericsson",
     "Processing 4G ZTE"}

(***************************************************************************)
(* C15: a source missing for one extractor is fatal to that vendor         *)
(* pipeline only: in a run where a processing step raised, every one of    *)
(* the four vendor pipelines has been attempted when the run ends.         *)
(***************************************************************************)
C15_OtherPipelinesStillAttempted ==
    (pc = "exit" /\ run.raised_in \in ProcessingSteps) =>
        run.attempted = {"Ericsson3G", "ZTE3G", "Ericsson4G", "ZTE4G"}

(***************************************************************************)
(* C16: when an exception ends a run, the step name printed by the handler *)
(* and the step name passed to send_failure are the name of the step whose *)
(* code raised, whichever step that is.                                    *)
(***************************************************************************)
C16_ReportedStepIsExecutingStep ==
    /\ pc = "except" => run.raised_in # ""
    /\ RunFailed =>
           /\ Outputs("print_failure") = {run.raised_in}
           /\ Outputs("send_failure") \subseteq {run.raised_in}
           /\ run.account => Outputs("send_failure") = {run.raised_in}
           /\ Outputs("send_success") = {}
    /\ (pc = "exit" /\ run.raised_in = "") =>
           Outputs("print_failure") \cup Outputs("send_failure") = {}

(* a failure in a download, with the account connected *)
C16_Witness ==
    /\ RunFailed
    /\ run.raised_in = "Download ZTE KPIs (Shared)"
    /\ Outputs("send_failure") = {"Download ZTE KPIs (Shared)"}

(* a failure of the connection, reported after the handler connected *)
C16_WitnessReconnected ==
    /\ RunFailed
    /\ run.raised_in = "Connect Exchange"
    /\ Outputs("send_failure") = {"Connect Exchange"}

(* a failure of the retention write, and a run that ended without one      *)
C16_WitnessSaving ==
    /\ RunFailed
    /\ run.raised_in = "Saving to Excel"
    /\ run.account

C16_WitnessSuccess ==
    /\ pc = "exit" /\ run.raised_in = ""
    /\ Outputs("send_success") # {}
    /\ Outputs("warning") # {}

(***************************************************************************)
(* C23: per technology the two vendors' site tables are concatenated, not  *)
(* merged: the technology's site table has |vendor A rows| + |vendor B     *)
(* rows| rows, every vendor row is in it unchanged, and a SiteID of both   *)
(* vendors has two separate rows, one per vendor, each with the aggregates *)
(* of its own vendor only.                                                 *)
(***************************************************************************)
RowsOfSite(df, s) == {i \in 1..Len(df) : df[i]["SiteID"] = s}

IsConcatenation(df, a, b) ==
    /\ Len(df) = Len(a) + Len(b)
    /\ \A i \in 1..Len(a) : df[i] = a[i]
    /\ \A j \in 1..Len(b) : df[Len(a) + j] = b[j]
    /\ \A s \in KeysOf(a, "SiteID") \cap KeysOf(b, "SiteID") :
           \E i \in 1..Len(a), j \in 1..Len(b) :
               /\ RowsOfSite(df, s) = {i, Len(a) + j}
               /\ df[i] = a[i]
               /\ df[Len(a) + j] = b[j]

Concatenated3G == pc \in {"Concatenating 4G Data", "Merging 3G + 4G Data", "Merged"}

Concatenated4G == pc \in {"Merging 3G + 4G Data", "Merged"}

C23_VendorTablesAreConcatenated ==
    /\ Concatenated3G =>
           IsConcatenation(df_3g_site, site_tables["df_3g_eric_site"],
                           site_tables["df_3g_zte_site"])
    /\ Concatenated4G =>
           IsConcatenation(df_4g_site, site_tables["df_4g_eric_site"],
                           site_tables["df_4g_zte_site"])

(* a site of both 3G vendors: two rows with different aggregates *)
C23_Witness ==
    /\ Concatenated4G
    /\ \E s \in KeysOf(site_tables["df_3g_eric_site"], "SiteID")
                  \cap KeysOf(site_tables["df_3g_zte_site"], "SiteID") :
           \E i, j \in RowsOfSite(df_3g_site, s) :
               /\ i < j
               /\ df_3g_site[i]["3G_User"] # df_3g_site[j]["3G_User"]
    /\ Len(df_4g_site) > Len(site_tables["df_4g_eric_site"])
    /\ Len(site_tables["df_4g_eric_site"]) > 0

(***************************************************************************)
(* C24: after every run that writes the historical table, the rows of the  *)
(* persisted table are in order of non-decreasing Date, when a table       *)
(* existed before the run and when the run created it.                     *)
(***************************************************************************)
SortedByDate(df) ==
    \A i, j \in 1..Len(df) : i < j => df[i]["Date"] <= df[j]["Date"]

C24_PersistedSortedByDate == HasWritten => SortedByDate(Persisted)

(* a table existed; the rows of the run are older than its last row and    *)
(* were kept, so the concatenation was out of order                        *)
C24_Witness ==
    /\ HasWritten
    /\ run.prior.state = "complete"
    /\ \E i \in 1..Len(run.prior.rows) : run.prior.rows[i]["Date"] > run.process_date
    /\ \E i, j \in 1..Len(Persisted) :
           /\ Persisted[i]["Date"] = run.process_date
           /\ Persisted[j]["Date"] > run.process_date

(* the run created the table *)
C24_WitnessCreated ==
    /\ HasWritten
    /\ run.prior.state = "absent"
    /\ Len(Persisted) > 1

(***************************************************************************)
(* C25: the cutoff of the eviction is the wall-clock time of the write     *)
(* minus 30 days, not the latest Date of the store: a run whose data date  *)
(* is earlier than that cutoff leaves, against an existing store, a table  *)
(* with no row of the run's date (the rows it appended are evicted in the  *)
(* same run); against an absent store it persists all of its rows.         *)
(***************************************************************************)
DateBeforeCutoff ==
    Midnight(run.process_date) < run.written_at - 2 * RetentionDays

RowsOfDate(df, d) == {i \in 1..Len(df) : df[i]["Date"] = d}

C25_CutoffIsWallClock ==
    (HasWritten /\ DateBeforeCutoff) =>
        /\ run.prior.state = "complete" => RowsOfDate(Persisted, run.process_date) = {}
        /\ run.prior.state = "absent" =>
               /\ Persisted = df_site_data
               /\ RowsOfDate(Persisted, run.process_date) = 1..Len(df_site_data)

(* a late run against a store whose latest row is two days old: its rows   *)
(* are gone, the younger rows of the store are kept                        *)
C25_Witness ==
    /\ HasWritten /\ DateBeforeCutoff
    /\ run.prior.state = "complete"
    /\ Len(df_site_data) > 0
    /\ Len(Persisted) > 0
    /\ \E i \in 1..Len(run.prior.rows) :
           run.prior.rows[i]["Date"] - run.process_date <= RetentionDays

(* the same run against an absent store *)
C25_WitnessAbsent ==
    /\ HasWritten /\ DateBeforeCutoff
    /\ run.prior.state = "absent"
    /\ Len(Persisted) > 0

(***************************************************************************)
(* C30: a retention write only appends and evicts: when a historical table *)
(* existed before the run, the table it persists is, as a multiset of      *)
(* rows, the rows of the prior table whose Date is not before the cutoff   *)
(* together with the rows of this run whose Date is not before the cutoff; *)
(* no kept row is changed, dropped or doubled and no other row is added.   *)
(***************************************************************************)
Count(df, r) == Cardinality({i \in 1..Len(df) : df[i] = r})

E3_TransformHsUserAgain ==
    /\ pc = "merge" /\ proc = "Ericsson3G"
    /\ dataframes' = transform_hs_user(dataframes)
    /\ pc' = "transformed again"
    /\ Frame

NextAgain ==
    \/ Next
    \/ E3_TransformHsUserAgain

SpecAgain == Init /\ [][NextAgain]_vars

(***************************************************************************)
(* C29: transform_hs_user is idempotent on a loaded processor: a second    *)
(* call on the same loaded tables returns the same Max_user and            *)
(* Max_hour_index for every cell as the first call.                        *)
(***************************************************************************)
C29_TransformHsUserIdempotent ==
    [][(pc = "merge" /\ pc' = "transformed again") =>
           dataframes'["HS_User_Transformed"] = dataframes["HS_User_Transformed"]]_vars

(***************************************************************************)
(* C22: a run on an input folder that holds every source file of the four  *)
(* vendor / technology pairs goes through the four pipelines, the merge    *)
(* and the retention write and ends as completed, not in the failure       *)
(* handler: when such a run has begun the processing and main returns, no  *)
(* step has raised, the four site tables exist and the table is written.   *)
(***************************************************************************)
FolderComplete ==
    /\ DOMAIN files = {"Ericsson3G", "ZTE3G", "Ericsson4G", "ZTE4G"}
    /\ \A p \in {"Ericsson3G", "ZTE3G", "Ericsson4G"} : ~LoadRaises(p, files[p])
    /\ ~load_raises_ZTE4G(files["ZTE4G"])

ProcessingBegun == "Ericsson3G" \in run.attempted

C22_CompleteFolderRunCompletes ==
    (FolderComplete /\ ProcessingBegun /\ pc = "exit") =>
        /\ run.raised_in = ""
        /\ DOMAIN site_tables = {"df_3g_eric_site", "df_3g_zte_site",
                                 "df_4g_eric_site", "df_4g_zte_site"}
        /\ HasWritten

(***************************************************************************)
(* The control panel: app_gradio.py over scheduler_db.py and APScheduler.  *)
(* db.schedules maps the id of a stored schedule to its row, db.seq is the *)
(* AUTOINCREMENT counter of the table, db.schedule_runs is the run history *)
(* in insertion order.  jobs is the set of schedule ids s that have the    *)
(* job 'db_job_<s>' (a job id is unique in the job store).  procs maps a   *)
(* process slot to a started run of the script: by is 0 for a manual       *)
(* launch and the schedule id for a scheduled job.                         *)
(***************************************************************************)
MaxSchedules == 2     \* schedules ever added
MaxProcs == 2         \* script runs in progress at a time
MaxHistory == 2       \* rows of schedule_runs ever inserted
MaxStoreRows == 2     \* rows of Aggregate.xlsx up to which a run still reads it

PipelineVars ==
    << pc, proc, sheets, csv, dataframes, site_tables, df_3g_site, df_4g_site,
       df_site_data, files, run >>

(* int(s) of a string of digits *)
RECURSIVE ToInt(_)
ToInt(s) ==
    IF s = << >> THEN 0
    ELSE 10 * ToInt(SubSeq(s, 1, Len(s) - 1))
             + (CHOOSE d \in 0..9 : DigitChars[d + 1] = s[Len(s)])

(* hour, minute = map(int, run_time.split(':')); CronTrigger(hour, minute): *)
(* two fields of digits, hour 0..23 and minute 0..59, or an exception      *)
CronAccepts(run_time) ==
    \E k \in 1..Len(run_time) :
        /\ run_time[k] = ":"
        /\ \A j \in 1..Len(run_time) : run_time[j] = ":" => j = k
        /\ IsDigits(SubSeq(run_time, 1, k - 1))
        /\ IsDigits(SubSeq(run_time, k + 1, Len(run_time)))
        /\ ToInt(SubSeq(run_time, 1, k - 1)) <= 23
        /\ ToInt(SubSeq(run_time, k + 1, Len(run_time))) <= 59

(* scheduler_db: the statements on schedules.db *)
add_schedule(d, name, freq, time, active) ==
    [d EXCEPT !.seq = @ + 1,
              !.schedules = ((d.seq + 1) :> [job_name |-> name, frequency |-> freq,
                                             run_time |-> time, is_active |-> active]) @@ @]

(* PRAGMA foreign_keys = ON; DELETE: the rows of schedule_runs go as well *)
delete_schedule(d, schedule_id) ==
    [d EXCEPT !.schedules = [i \in DOMAIN @ \ {schedule_id} |-> @[i]],
              !.schedule_runs = SelectSeq(@, LAMBDA r : r.schedule_id # schedule_id)]

update_schedule_status(d, schedule_id, is_active) ==
    IF schedule_id \in DOMAIN d.schedules
    THEN [d EXCEPT !.schedules[schedule_id].is_active = is_active]
    ELSE d

(* a connection of its own: foreign keys are not enforced on it *)
log_run(d, schedule_id, status) ==
    [d EXCEPT !.schedule_runs = Append(@, [schedule_id |-> schedule_id, status |-> status])]

(* app_gradio: the job store *)
add_job_to_scheduler(js, schedule_id, schedule) ==
    IF CronAccepts(schedule.run_time) THEN js \cup {schedule_id} ELSE js

remove_job_from_scheduler(js, schedule_id) == js \ {schedule_id}

(* the inputs of the form *)
NameInputs == {"", "daily report", "weekly report"}

FrequencyInputs == {"daily", "weekly"}

TimeInputs == {<< >>, << "0", "8", ":", "3", "0" >>, << "2", "5", ":", "0", "0" >>}

handle_add_schedule(name, freq, time, active) ==
    /\ db.seq < MaxSchedules
    /\ IF name = "" \/ time = << >>
       THEN UNCHANGED << db, jobs >>
       ELSE IF \E i \in DOMAIN db.schedules : db.schedules[i].job_name = name
            THEN UNCHANGED << db, jobs >>          \* sqlite3.IntegrityError
            ELSE /\ db' = add_schedule(db, name, freq, time, active)
                 /\ jobs' = IF active
                            THEN add_job_to_scheduler(jobs, db.seq + 1,
                                                      db'.schedules[db.seq + 1])
                            ELSE jobs
    /\ UNCHANGED << PipelineVars, aggregate_file, now, procs >>

(* the choice is an entry of the dropdown, which may be out of date *)
handle_toggle_status(schedule_id, new_status) ==
    /\ schedule_id \in 1..db.seq
    /\ db' = update_schedule_status(db, schedule_id, new_status)
    /\ jobs' = IF new_status
               THEN IF schedule_id \in DOMAIN db'.schedules
                    THEN add_job_to_scheduler(jobs, schedule_id, db'.schedules[schedule_id])
                    ELSE jobs
               ELSE remove_job_from_scheduler(jobs, schedule_id)
    /\ UNCHANGED << PipelineVars, aggregate_file, now, procs >>

handle_delete_schedule(schedule_id) ==
    /\ schedule_id \in 1..db.seq
    /\ jobs' = remove_job_from_scheduler(jobs, schedule_id)
    /\ db' = delete_schedule(db, schedule_id)
    /\ UNCHANGED << PipelineVars, aggregate_file, now, procs >>

sync_scheduler_from_db ==
    /\ jobs' = {i \in DOMAIN db.schedules :
                   db.schedules[i].is_active /\ CronAccepts(db.schedules[i].run_time)}
    /\ UNCHANGED << PipelineVars, aggregate_file, now, db, procs >>

(* a started run of the script: python <script_path> [--process-date d] *)
Started(by, process_date) ==
    [by |-> by, process_date |-> process_date, pc |-> "main",
     existing |-> Absent, returncode |-> 0, outcome |-> ""]

FreeSlot == CHOOSE n \in 1..MaxProcs : n \notin DOMAIN procs

(* the date field of the manual launch: left empty (the script takes       *)
(* yesterday), or a day given as YYYY-MM-DD                                *)
NoDate == 0

DateInputs == {NoDate, 98}

(* run_script_manual: subprocess.Popen, which does not wait *)
run_script_manual(process_date) ==
    /\ Cardinality(DOMAIN procs) < MaxProcs
    /\ procs' = (FreeSlot :> Started(0, IF process_date = NoDate THEN (now - 2) \div 2
                                        ELSE process_date)) @@ procs
    /\ UNCHANGED << PipelineVars, aggregate_file, now, db, jobs >>

(* the trigger of a job fires and a thread of the executor enters          *)
(* run_scheduled_job, up to subprocess.run; a job has at most one running  *)
(* instance (max_instances of APScheduler is 1 by default)                 *)
run_scheduled_job(schedule_id) ==
    /\ schedule_id \in jobs
    /\ Cardinality(DOMAIN procs) < MaxProcs
    /\ \A n \in DOMAIN procs : procs[n].by # schedule_id
    /\ procs' = (FreeSlot :> Started(schedule_id, (now - 2) \div 2)) @@ procs
    /\ UNCHANGED << PipelineVars, aggregate_file, now, db, jobs >>

(* script.main in a started process: an exception in the try block ends in *)
(* the handler, after which main returns and the exit code is 0            *)
RunRaises(n) ==
    /\ n \in DOMAIN procs /\ procs[n].pc = "main"
    /\ procs' = [procs EXCEPT ![n].pc = "returned", ![n].outcome = "handler"]
    /\ UNCHANGED << PipelineVars, aggregate_file, now, db, jobs >>

(* an error outside the try block of main, or the interpreter cannot run   *)
(* the script: the exit code is not 0                                      *)
RunCrashes(n) ==
    /\ n \in DOMAIN procs /\ procs[n].pc = "main"
    /\ procs' = [procs EXCEPT ![n].pc = "returned", ![n].outcome = "crash",
                              ![n].returncode = 1]
    /\ UNCHANGED << PipelineVars, aggregate_file, now, db, jobs >>

(* script.py:401-403, the run looks at Aggregate.xlsx and reads it *)
RunReads(n) ==
    /\ n \in DOMAIN procs /\ procs[n].pc = "main"
    /\ Len(aggregate_file.rows) < MaxStoreRows
    /\ procs' = [procs EXCEPT ![n].pc = "Saving to Excel", ![n].existing = aggregate_file]
    /\ UNCHANGED << PipelineVars, aggregate_file, now, db, jobs >>

(* the rows of a run for a date *)
RowsOfRun(process_date) == PriorRow(process_date)

(* script.py:406-426, append, evict, sort and write; main returns *)
RunWrites(n) ==
    /\ n \in DOMAIN procs /\ procs[n].pc = "Saving to Excel"
    /\ aggregate_file' =
           to_excel(IF procs[n].existing.state = "absent"
                    THEN combine_absent(RowsOfRun(procs[n].process_date), now)
                    ELSE combine_existing(read_excel(procs[n].existing),
                                          RowsOfRun(procs[n].process_date), now))
    /\ procs' = [procs EXCEPT ![n].pc = "returned", ![n].outcome = "completed"]
    /\ UNCHANGED << PipelineVars, now, db, jobs >>

(* the rest of run_scheduled_job, lines 117-124: the status is taken from  *)
(* the exit code and logged                                                *)
LogRun(n) ==
    /\ n \in DOMAIN procs /\ procs[n].pc = "returned" /\ procs[n].by # 0
    /\ Len(db.schedule_runs) < MaxHistory
    /\ db' = log_run(db, procs[n].by, IF procs[n].returncode = 0 THEN "OK" ELSE "NOK")
    /\ procs' = [m \in DOMAIN procs \ {n} |-> procs[m]]
    /\ UNCHANGED << PipelineVars, aggregate_file, now, jobs >>

(* the process of a manual launch ends; nothing waits for it *)
ProcessExits(n) ==
    /\ n \in DOMAIN procs /\ procs[n].pc = "returned" /\ procs[n].by = 0
    /\ procs' = [m \in DOMAIN procs \ {n} |-> procs[m]]
    /\ UNCHANGED << PipelineVars, aggregate_file, now, db, jobs >>

PanelStart ==
    /\ pc = "panel"
    /\ proc = "app_gradio"
    /\ sheets = NoTables
    /\ csv = NoTables
    /\ dataframes = NoTables
    /\ site_tables = NoTables
    /\ df_3g_site = NoTables
    /\ df_4g_site = NoTables
    /\ df_site_data = NoTables
    /\ files = NoTables
    /\ run = NoRun
    /\ aggregate_file = Absent
    /\ now = 201
    /\ procs = << >>

(***************************************************************************)
(* The panel with its schedule management and the scheduled jobs.  A run   *)
(* of script.py ends in the handler of main or with an error outside it:   *)
(* in this source no run gets past 'Processing 4G ZTE'.                    *)
(***************************************************************************)
InitPanel ==
    /\ PanelStart
    /\ db = NoDb
    /\ jobs = {}

NextPanel ==
    \/ \E name \in NameInputs, freq \in FrequencyInputs, time \in TimeInputs,
          active \in BOOLEAN : handle_add_schedule(name, freq, time, active)
    \/ \E i \in 1..MaxSchedules, new_status \in BOOLEAN : handle_toggle_status(i, new_status)
    \/ \E i \in 1..MaxSchedules : handle_delete_schedule(i)
    \/ sync_scheduler_from_db
    \/ \E i \in 1..MaxSchedules : run_scheduled_job(i)
    \/ \E n \in 1..MaxProcs : RunRaises(n) \/ RunCrashes(n) \/ LogRun(n)

SpecPanel == InitPanel /\ [][NextPanel]_vars

(***************************************************************************)
(* The launches: manual runs and the jobs of two stored, active schedules, *)
(* with the retention write of a run that gets as far as 'Saving to Excel' *)
(* (the runs of a source whose 4G ZTE processor is complete).              *)
(***************************************************************************)
InitLaunch ==
    /\ PanelStart
    /\ db = add_schedule(add_schedule(NoDb, "daily report", "daily",
                                      << "0", "8", ":", "3", "0" >>, TRUE),
                         "weekly report", "weekly", << "0", "8", ":", "3", "0" >>, TRUE)
    /\ jobs = {1, 2}

NextLaunch ==
    \/ \E process_date \in DateInputs : run_script_manual(process_date)
    \/ \E i \in 1..MaxSchedules : run_scheduled_job(i)
    \/ \E n \in 1..MaxProcs :
           RunRaises(n) \/ RunReads(n) \/ RunWrites(n) \/ LogRun(n) \/ ProcessExits(n)

SpecLaunch == InitLaunch /\ [][NextLaunch]_vars

(***************************************************************************)
(* C21: at most one run of the pipeline executes at a time against the     *)
(* historical table: under any interleaving of manual launches and         *)
(* scheduled jobs no two runs are in progress together, no two runs are    *)
(* between their reading and their writing of the table together, and the  *)
(* rows a completed run appended are in the table.                         *)
(***************************************************************************)
InProgress == {n \in DOMAIN procs : procs[n].pc # "returned"}

InStore == {n \in DOMAIN procs : procs[n].pc = "Saving to Excel"}

RowsKept(n) == Range(RowsOfRun(procs[n].process_date)) \subseteq Range(Persisted)

C21_AtMostOneRunAtATime ==
    /\ Cardinality(InProgress) <= 1
    /\ Cardinality(InStore) <= 1
    /\ \A n \in DOMAIN procs : procs[n].outcome = "completed" => RowsKept(n)

(* two runs read the table before either wrote it: the rows of the run     *)
(* that wrote first are gone                                               *)
C21_LostUpdate ==
    \E n \in DOMAIN procs : procs[n].outcome = "completed" /\ ~RowsKept(n)

(***************************************************************************)
(* C26: the status recorded for a scheduled run reflects the outcome of    *)
(* the pipeline: run_scheduled_job inserts exactly one row of run history  *)
(* per execution, with status OK only if the run completed all its stages  *)
(* and NOK whenever the run ended in the failure handler of main.          *)
(***************************************************************************)
Logged(n) ==
    /\ n \in DOMAIN procs /\ procs[n].pc = "returned" /\ procs[n].by # 0
    /\ n \notin DOMAIN procs'

C26_StatusReflectsOutcome ==
    [][\A n \in 1..MaxProcs :
           Logged(n) =>
               /\ Len(db'.schedule_runs) = Len(db.schedule_runs) + 1
               /\ LET row == db'.schedule_runs[Len(db'.schedule_runs)]
                  IN  /\ row.schedule_id = procs[n].by
                      /\ row.status = "OK" => procs[n].outcome = "completed"
                      /\ procs[n].outcome = "handler" => row.status = "NOK"]_vars

(***************************************************************************)
(* C27: after any sequence of handle_add_schedule, handle_toggle_status,   *)
(* handle_delete_schedule and sync_scheduler_from_db, with any name, time  *)
(* and frequency, the jobs of the scheduler are the schedules of the       *)
(* database with is_active true: one job db_job_<id> for each active       *)
(* schedule, none for an inactive or deleted one.                          *)
(***************************************************************************)
ActiveSchedules == {i \in DOMAIN db.schedules : db.schedules[i].is_active}

C27_JobsAreActiveSchedules == jobs = ActiveSchedules

(* the same for schedules whose run_time the trigger accepts *)
C27_JobsAreActiveValidSchedules ==
    jobs = {i \in ActiveSchedules : CronAccepts(db.schedules[i].run_time)}

(***************************************************************************)
(* C28: deleting a schedule removes its run history with it, and under any *)
(* interleaving of the deletion with a job of the schedule that is still   *)
(* executing every row of schedule_runs refers to a stored schedule.       *)
(***************************************************************************)
C28_NoRunOfDeletedSchedule ==
    \A i \in 1..Len(db.schedule_runs) :
        db.schedule_runs[i].schedule_id \in DOMAIN db.schedules

====
